---- MODULE Spec2Model ----
(***************************************************************************)
(* A model of the slicing-and-metric-execution engine of sims_maf:         *)
(*   - MafDriver (driver/mafDriver.py): grouping of binners by SQL         *)
(*     constraint, one getData per constraint, per-binner setup, runBins,  *)
(*     reduceAll, plotAll, writeAll, and the final config save;            *)
(*   - BaseGridMetric.runGrid (gridMetrics/baseGridMetric.py): column      *)
(*     validation through the class registry and the per-point loop;       *)
(*   - OneDSlicer (slicers/oneDSlicer.py): bin set-up and slice lookup.    *)
(* Each part has its own specification; the variables of the other parts  *)
(* stay at their initial value.                                            *)
(***************************************************************************)
EXTENDS Integers, Sequences, FiniteSets, TLC

(***************************************************************************)
(* Bounds of the model.                                                    *)
(***************************************************************************)
NBinners == 2       \* number of configured binners (config.binners)
NOpsim == 2         \* number of opsim runs (config.opsimNames)

(***************************************************************************)
(* Helpers.                                                                *)
(***************************************************************************)
Range(s) == {s[k] : k \in DOMAIN s}

\* All orderings of a finite set (the order of list(set(...)) is arbitrary).
Orderings(S) == {s \in [1..Cardinality(S) -> S] : Range(s) = S}

RECURSIVE Flatten(_)
Flatten(ss) == IF ss = <<>> THEN <<>> ELSE Head(ss) \o Flatten(Tail(ss))

(***************************************************************************)
(* The database and the column sources.                                    *)
(***************************************************************************)
ConstraintStrings == {"r", "g"}

\* Columns of the opsim output table (Table.columnMap).
columnMap == {"obsHistID", "expMJD", "airmass", "fieldRA"}

\* ColInfo.getDataSource: the stacker that produces a derived column, or
\* "None" (defaultDataSource) for a database column.
getDataSource(name) ==
    IF name = "normairmass" THEN "NormAirmass"
    ELSE IF name = "hexdithra" THEN "HexDither"
    ELSE "None"

\* stacker.cols: the database columns a stacker reads.
StackerCols(s) ==
    IF s = "NormAirmass" THEN {"airmass"}
    ELSE IF s = "HexDither" THEN {"fieldRA"}
    ELSE {}

\* The columns a stacker's run adds to the table.
StackerColsAdded(s) ==
    IF s = "NormAirmass" THEN {"normairmass"}
    ELSE IF s = "HexDither" THEN {"hexdithra"}
    ELSE {}

\* self.data before the first getData.
NoData == [id |-> 0, cols |-> {}, rows |-> {}]

\* The contents of the database: the rows each constraint selects.
DbChoices ==
    { [c \in ConstraintStrings |-> IF c = "r" THEN {1, 2, 3} ELSE {2}],
      [c \in ConstraintStrings |-> IF c = "r" THEN {1, 2, 3} ELSE {}] }

(***************************************************************************)
(* Metrics and binners as MafDriver.__init__ builds them.                  *)
(***************************************************************************)
\* A metric: name (given as metricName), colNameList, and the rows on which
\* its run raises.
Count_expMJD == [name |-> "Count_expMJD", colNameList |-> {"expMJD"},
                 badRows |-> {}]
Mean_normairmass == [name |-> "Mean_normairmass",
                     colNameList |-> {"normairmass"}, badRows |-> {}]
Min_airmass == [name |-> "Min_airmass", colNameList |-> {"airmass"},
                badRows |-> {3}]

\* A configured binner (BinnerConfig read by __init__): binnerName, bin
\* values (the partition definition), constraints, columnsNeeded, configured
\* stackers, metadata and its metrics (self.metricList[binner.index]).
BinnerChoices ==
    { [binnerName |-> "UniBinner", bins |-> <<>>, constraints |-> <<"r">>,
       columnsNeeded |-> {}, stackers |-> <<>>, metadata |-> "",
       metrics |-> <<Count_expMJD>>],
      [binnerName |-> "UniBinner", bins |-> <<>>, constraints |-> <<"r", "g">>,
       columnsNeeded |-> {}, stackers |-> <<"HexDither">>, metadata |-> "dith",
       metrics |-> <<Count_expMJD, Mean_normairmass>>],
      [binnerName |-> "OneDBinner", bins |-> <<1, 2>>, constraints |-> <<"g">>,
       columnsNeeded |-> {"airmass"}, stackers |-> <<>>, metadata |-> "",
       metrics |-> <<Mean_normairmass>>],
      [binnerName |-> "OneDBinner", bins |-> <<1, 2>>, constraints |-> <<"g", "r">>,
       columnsNeeded |-> {"airmass"}, stackers |-> <<>>, metadata |-> "X",
       metrics |-> <<Mean_normairmass>>],
      [binnerName |-> "OneDBinner", bins |-> <<1, 3>>, constraints |-> <<"r", "r">>,
       columnsNeeded |-> {"expMJD"}, stackers |-> <<>>, metadata |-> "",
       metrics |-> <<>>],
      [binnerName |-> "OneDBinner", bins |-> <<1, 3>>, constraints |-> <<"r">>,
       columnsNeeded |-> {"expMJD"}, stackers |-> <<>>, metadata |-> "",
       metrics |-> <<Min_airmass>>] }

\* temp_binner.binnertype = temp_binner.binnerName[:4].upper()
binnertype(b) == IF b.binnerName = "UniBinner" THEN "UNIB" ELSE "ONED"

\* The filenames __init__ checks for uniqueness:
\* constraint+metric.name+binner.metadata+binner.binnertype, one per
\* (binner, constraint, metric).
Filenames(bl) ==
    Flatten([b \in DOMAIN bl |->
        Flatten([c \in DOMAIN bl[b].constraints |->
            [m \in DOMAIN bl[b].metrics |->
                <<bl[b].constraints[c], bl[b].metrics[m].name,
                  bl[b].metadata, binnertype(bl[b])>>]])])

FilenamesUnique(bl) ==
    LET f == Filenames(bl) IN Cardinality(Range(f)) = Len(f)

\* self.constraints: every constraint of every binner, in binList order ...
AllConstraints(bl) == Flatten([b \in DOMAIN bl |-> bl[b].constraints])

\* ... made unique by list(set(...)), in an arbitrary order.
KeepDuplicateConstraints(bl) == {AllConstraints(bl)}
UniqueConstraints(bl) == Orderings(Range(AllConstraints(bl)))

\* Binner equality (OneDBinner.__eq__, UniBinner.__eq__): same class and, for
\* a one-dimensional binner, the same bin values.
BinnerEq(a, b) ==
    /\ a.binnerName = b.binnerName
    /\ (a.binnerName = "OneDBinner" => a.bins = b.bins)

(***************************************************************************)
(* State of the driver.                                                    *)
(***************************************************************************)
VARIABLES
    binList,          \* self.binList (with self.metricList folded in)
    constraints,      \* self.constraints
    dbRows,           \* the database: constraint -> rows selected
    opsim,            \* index into config.opsimNames
    j,                \* index into self.constraints
    matchingBinners,  \* binList indices matching constraints[j]
    i,                \* index into matchingBinners
    data,             \* self.data
    getDataStackers,  \* the list bound to getData's default stackers=[]
    nextId,           \* identity of the next array object created
    events,           \* what the run did, in order
    pc                \* position in MafDriver.run

dvars == <<binList, constraints, dbRows, opsim, j, matchingBinners, i, data,
           getDataStackers, nextId, events, pc>>

(***************************************************************************)
(* State of BaseGridMetric.runGrid and of the metrics' class registry.     *)
(***************************************************************************)
VARIABLES
    classRegistry,    \* BaseMetric.classRegistry: class name -> set of columns
    metrics,          \* the metricList handed to runGrid (self.metrics)
    simData,          \* the columns of the table handed to runGrid
    sliceCol,         \* the sliceCol argument of runGrid
    grid,             \* the grid: for each gridpoint the rows its slice holds
    metricValues,     \* self.metricValues: metric name -> array
    islice,           \* the grid iterator's position
    runCalls,         \* the calls m.run made so far: <<metric name, point>>
    gerr,             \* what an exception that left runGrid names
    gpc               \* position in runGrid

gvars == <<classRegistry, metrics, simData, sliceCol, grid, metricValues,
           islice, runCalls, gerr, gpc>>

(***************************************************************************)
(* State of a OneDSlicer and of its caller.                                *)
(***************************************************************************)
VARIABLES
    slicer,           \* the fields of the OneDSlicer
    table,            \* the slice column of the table last handed to setup
    nsetup,           \* number of setupSlicer calls so far
    result,           \* outcome of the last call on the slicer
    mvals,            \* the metric values handed to the last write
    file,             \* the contents of the output file
    back              \* what the last read returned

ovars == <<slicer, table, nsetup, result, mvals, file, back>>

(***************************************************************************)
(* State of a slice-metric container (BaseSliceMetric and                  *)
(* ComparisonSliceMetric).                                                 *)
(***************************************************************************)
VARIABLES
    sm,               \* iid_next and the dictionaries keyed by iid
    sres              \* outcome of the last call on the container

\* State of a binner or slicer that reads files or iterates, and of a
\* metric that is run and reduced.
VARIABLES
    binner,           \* the fields of the binner (or slicer)
    bres,             \* outcome of the last call on the binner
    calc              \* the input and the results of the last metric run

svars == <<sm, sres, binner, bres, calc>>

vars == <<dvars, gvars, ovars, svars>>

\* The parts that a specification does not exercise stay as they are.
IdleDriver ==
    /\ binList = <<>>
    /\ constraints = <<>>
    /\ dbRows = <<>>
    /\ opsim = 1
    /\ j = 1
    /\ matchingBinners = <<>>
    /\ i = 1
    /\ data = [id |-> 0, cols |-> {}, rows |-> {}]
    /\ getDataStackers = {}
    /\ nextId = 1
    /\ events = <<>>
    /\ pc = "idle"

IdleGrid ==
    /\ classRegistry = <<>>
    /\ metrics = <<>>
    /\ simData = {}
    /\ sliceCol = "None"
    /\ grid = <<>>
    /\ metricValues = <<>>
    /\ islice = 0
    /\ runCalls = {}
    /\ gerr = "None"
    /\ gpc = "idle"

IdleOneD ==
    /\ slicer = <<>>
    /\ table = <<>>
    /\ nsetup = 0
    /\ result = <<>>
    /\ mvals = <<>>
    /\ file = <<>>
    /\ back = <<>>

IdleSliceMetric ==
    /\ sm = <<>>
    /\ sres = <<>>
    /\ binner = <<>>
    /\ bres = <<>>
    /\ calc = <<>>

Event(ev, b, cols, d) ==
    [ev |-> ev, opsim |-> opsim, constr |-> constraints[j], binner |-> b,
     cols |-> cols, dataId |-> d.id, dataCols |-> d.cols, rows |-> d.rows]

\* MafDriver.__init__ has run: binList, metricList and constraints are built
\* and the filenames are unique (otherwise __init__ raises); run() has not
\* started.
InitDriver ==
    /\ binList \in {bl \in [1..NBinners -> BinnerChoices] : FilenamesUnique(bl)}
    /\ constraints \in UniqueConstraints(binList)
    /\ dbRows \in DbChoices
    /\ opsim = 1
    /\ j = 1
    /\ matchingBinners = <<>>
    /\ i = 1
    /\ data = NoData
    /\ getDataStackers = {}
    /\ nextId = 1
    /\ events = <<>>
    /\ pc = "constr"


(***************************************************************************)
(* MafDriver.run, one action per step of the loop body.                    *)
(***************************************************************************)
\* "Find which binners have a matching constraint": the binners b of binList,
\* in order, with constr in b.constraints.
RECURSIVE matchingFrom(_, _, _)
matchingFrom(bl, constr, k) ==
    IF k > Len(bl) THEN <<>>
    ELSE (IF constr \in Range(bl[k].constraints) THEN <<k>> ELSE <<>>)
         \o matchingFrom(bl, constr, k + 1)

\* colnames of run(): the columns of the metrics, binners and configured
\* stackers of the matching binners.
Colnames(bl, matching) ==
    UNION { UNION {bl[b].metrics[m].colNameList : m \in DOMAIN bl[b].metrics}
            \cup bl[b].columnsNeeded
            \cup UNION {StackerCols(s) : s \in Range(bl[b].stackers)}
          : b \in Range(matching) }

\* getData, first half: the stackers list after the default stackers of the
\* derived columns were appended to it.
getDataStackersAfter(colnames, stackers) ==
    stackers \cup {getDataSource(n) : n \in {c \in colnames : getDataSource(c) # "None"}}

\* getData, first half: dbcolnames, the columns asked of the table.
dbcolnames(colnames, stackers) ==
    {n \in colnames : getDataSource(n) = "None"}
    \cup UNION {StackerCols(getDataSource(n)) :
                    n \in {c \in colnames : getDataSource(c) # "None"}}
    \cup UNION {StackerCols(s) : s \in getDataStackersAfter(colnames, stackers)}

\* A variant of ApplyStackers in which the stackers hand back only the columns
\* they computed.
ApplyStackersOnlyNew(stackerSet, tbl, newId) ==
    IF stackerSet = {} THEN tbl
    ELSE [id |-> newId,
          cols |-> UNION {StackerColsAdded(s) : s \in stackerSet},
          rows |-> tbl.rows]

\* "for stacker in stackers: self.data = stacker.run(self.data)": each run
\* returns the table with the stacker's columns added, a new array object
\* with the rows of the input.
ApplyStackers(stackerSet, tbl, newId) ==
    IF stackerSet = {} THEN tbl
    ELSE [id |-> newId,
          cols |-> tbl.cols \cup UNION {StackerColsAdded(s) : s \in stackerSet},
          rows |-> tbl.rows]

Raise ==
    /\ pc' = "raised"
    /\ UNCHANGED <<binList, constraints, dbRows, opsim, j, matchingBinners, i,
                   data, nextId>>

\* Lines 125-147: the matching binners, the column names and getData for
\* constraints[j]. Table.query_columns_RecArray raises when a column is not in
\* the columnMap, and np.hstack raises on an empty chunk list; whether the
\* chunk iterator of the database library yields no chunk or one empty chunk
\* for an empty result is the library's choice.
FetchConstraint ==
    /\ UNCHANGED <<gvars, ovars, svars>>
    /\ pc = "constr"
    /\ LET constr == constraints[j]
           matching == matchingFrom(binList, constr, 1)
           colnames == Colnames(binList, matching)
           stk == getDataStackersAfter(colnames, getDataStackers)
           dbcols == dbcolnames(colnames, getDataStackers)
           fetched == [id |-> nextId, cols |-> dbcols \cup {"obsHistID"},
                       rows |-> dbRows[constr]]
       IN /\ getDataStackers' = stk
          /\ \/ /\ dbcols \subseteq columnMap
                /\ matchingBinners' = matching
                /\ i' = 1
                /\ data' = ApplyStackers(stk, fetched, nextId + 1)
                /\ nextId' = nextId + 2
                /\ events' = Append(events, Event("fetch", 0, dbcols, data'))
                /\ pc' = "binner"
                /\ UNCHANGED <<binList, constraints, dbRows, opsim, j>>
             \/ /\ \/ ~(dbcols \subseteq columnMap)
                   \/ dbRows[constr] = {}
                /\ events' = Append(events, Event("fetchRaised", 0, dbcols, NoData))
                /\ Raise

\* len(binner): UniBinner has one bin, OneDBinner one per bin value.
nbins(b) == IF b.binnerName = "UniBinner" THEN 1 ELSE Len(b.bins)

\* binner.sliceSimData for bin k after setupBinner on a table with the given
\* rows (the value of a row in the slice column is the row number): every row
\* for a UniBinner; for a OneDBinner simIdxs[left[k]:left[k+1]], where left is
\* searchsorted(sorted values, bins, 'left') followed by the row count.
sliceSimData(b, rows, k) ==
    IF b.binnerName = "UniBinner" THEN rows
    ELSE {r \in rows : /\ b.bins[k] <= r
                       /\ (k = Len(b.bins) \/ r < b.bins[k + 1])}

\* A metric's run raises on a data slice that holds one of its bad rows.
MetricRaises(m, slice) == slice \cap m.badRows # {}

\* A variant of SetupBinner that skips setupBinner when an equal binner of the
\* group has been set up already.
SetupBinnerShared ==
    /\ UNCHANGED <<gvars, ovars, svars>>
    /\ pc = "binner"
    /\ LET b == matchingBinners[i]
           d == ApplyStackers(Range(binList[b].stackers), data, nextId)
           shared == \E k \in DOMAIN events :
                        /\ events[k].ev = "setup"
                        /\ events[k].opsim = opsim
                        /\ events[k].constr = constraints[j]
                        /\ BinnerEq(binList[events[k].binner], binList[b])
       IN /\ data' = d
          /\ nextId' = nextId + 1
          /\ events' = IF shared THEN events
                        ELSE Append(events, Event("setup", b, {}, d))
    /\ pc' = "runBins"
    /\ UNCHANGED <<binList, constraints, dbRows, opsim, j, matchingBinners, i,
                   getDataStackers>>

\* Lines 149-161: the binner's configured stackers run on self.data, then
\* setupBinner(self.data).
SetupBinner ==
    /\ UNCHANGED <<gvars, ovars, svars>>
    /\ pc = "binner"
    /\ LET b == matchingBinners[i]
           d == ApplyStackers(Range(binList[b].stackers), data, nextId)
       IN /\ data' = d
          /\ nextId' = nextId + 1
          /\ events' = Append(events, Event("setup", b, {}, d))
    /\ pc' = "runBins"
    /\ UNCHANGED <<binList, constraints, dbRows, opsim, j, matchingBinners, i,
                   getDataStackers>>

\* Lines 162-164: setBinner, setMetrics and runBins(self.data): every metric of
\* the binner is run on every bin that has data; an exception of a metric's
\* run is not caught and leaves run().
RunBins ==
    /\ UNCHANGED <<gvars, ovars, svars>>
    /\ pc = "runBins"
    /\ LET b == matchingBinners[i]
           bin == binList[b]
           raises == \E k \in 1..nbins(bin) : \E m \in Range(bin.metrics) :
                        LET idxs == sliceSimData(bin, data.rows, k)
                        IN idxs # {} /\ MetricRaises(m, idxs)
       IN IF raises
          THEN /\ events' = Append(events, Event("runBinsRaised", b, {}, data))
               /\ Raise
               /\ UNCHANGED getDataStackers
          ELSE /\ events' = Append(events, Event("runBins", b, {}, data))
               /\ pc' = "reduce"
               /\ UNCHANGED <<binList, constraints, dbRows, opsim, j,
                              matchingBinners, i, data, getDataStackers, nextId>>

\* A variant of ReduceAll that may run before the binner's metrics were run.
ReduceAllEarly ==
    /\ UNCHANGED <<gvars, ovars, svars>>
    /\ pc \in {"runBins", "reduce"}
    /\ events' = Append(events, Event("reduce", matchingBinners[i], {}, data))
    /\ pc' = "plot"
    /\ UNCHANGED <<binList, constraints, dbRows, opsim, j, matchingBinners, i,
                   data, getDataStackers, nextId>>

\* Line 165: gm.reduceAll().
ReduceAll ==
    /\ UNCHANGED <<gvars, ovars, svars>>
    /\ pc = "reduce"
    /\ events' = Append(events, Event("reduce", matchingBinners[i], {}, data))
    /\ pc' = "plot"
    /\ UNCHANGED <<binList, constraints, dbRows, opsim, j, matchingBinners, i,
                   data, getDataStackers, nextId>>

\* Lines 166-169: the plot parameters are replaced and gm.plotAll runs.
PlotAll ==
    /\ UNCHANGED <<gvars, ovars, svars>>
    /\ pc = "plot"
    /\ events' = Append(events, Event("plot", matchingBinners[i], {}, data))
    /\ pc' = "write"
    /\ UNCHANGED <<binList, constraints, dbRows, opsim, j, matchingBinners, i,
                   data, getDataStackers, nextId>>

\* Line 170: gm.writeAll, then the loops advance: next matching binner, next
\* constraint, next opsim run, or the end of the loops.
WriteAll ==
    /\ UNCHANGED <<gvars, ovars, svars>>
    /\ pc = "write"
    /\ events' = Append(events, Event("write", matchingBinners[i], {}, data))
    /\ IF i < Len(matchingBinners)
       THEN /\ i' = i + 1
            /\ pc' = "binner"
            /\ UNCHANGED <<j, opsim>>
       ELSE IF j < Len(constraints)
       THEN /\ j' = j + 1
            /\ pc' = "constr"
            /\ UNCHANGED <<i, opsim>>
       ELSE IF opsim < NOpsim
       THEN /\ opsim' = opsim + 1
            /\ j' = 1
            /\ pc' = "constr"
            /\ UNCHANGED i
       ELSE /\ pc' = "save"
            /\ UNCHANGED <<i, j, opsim>>
    /\ UNCHANGED <<binList, constraints, dbRows, matchingBinners, data,
                   getDataStackers, nextId>>

\* Line 171: self.config.save(... 'maf_config_asRan.py').
SaveConfig ==
    /\ UNCHANGED <<gvars, ovars, svars>>
    /\ pc = "save"
    /\ events' = Append(events, Event("save", 0, {}, data))
    /\ pc' = "done"
    /\ UNCHANGED <<binList, constraints, dbRows, opsim, j, matchingBinners, i,
                   data, getDataStackers, nextId>>

NextDriver ==
    \/ FetchConstraint
    \/ SetupBinner
    \/ RunBins
    \/ ReduceAll
    \/ PlotAll
    \/ WriteAll
    \/ SaveConfig


(***************************************************************************)
(* Claims about MafDriver.run.                                             *)
(***************************************************************************)
\* The positions of the events of one kind for an opsim run and a constraint.
EventsOf(kinds, o, c) ==
    {k \in DOMAIN events : /\ events[k].ev \in kinds
                           /\ events[k].opsim = o
                           /\ events[k].constr = c}

\* The same, for one binner.
BinnerEventsOf(kinds, o, c, b) ==
    {k \in EventsOf(kinds, o, c) : events[k].binner = b}

\* The distinct constraint strings of the configured binners.
DistinctConstraints == UNION {Range(binList[b].constraints) : b \in DOMAIN binList}

\* The binners whose constraint list contains c.
BinnersWith(c) == {b \in DOMAIN binList : c \in Range(binList[b].constraints)}

\* C1: in every opsim run a constraint string is never fetched twice; when
\* run() has finished, each opsim run has as many fetches as there are
\* distinct constraint strings over all binners, one per distinct string, and
\* the binners evaluated on a fetch are exactly those whose constraint list
\* contains the string.
C1_OneFetchPerDistinctConstraint ==
    /\ \A o \in 1..NOpsim : \A c \in ConstraintStrings :
          Cardinality(EventsOf({"fetch", "fetchRaised"}, o, c)) <= 1
    /\ pc = "done" =>
          \A o \in 1..NOpsim :
             /\ Cardinality({k \in DOMAIN events : /\ events[k].ev = "fetch"
                                                   /\ events[k].opsim = o})
                   = Cardinality(DistinctConstraints)
             /\ \A c \in DistinctConstraints :
                   /\ Cardinality(EventsOf({"fetch"}, o, c)) = 1
                   /\ {events[k].binner : k \in EventsOf({"runBins"}, o, c)}
                         = BinnersWith(c)

\* C1 witness: a finished run over two distinct constraints, one of them
\* configured on both binners.
C1_Witness ==
    /\ pc = "done"
    /\ Cardinality(DistinctConstraints) = 2
    /\ \E c \in DistinctConstraints : Cardinality(BinnersWith(c)) >= 2

\* The columns a constraint needs by itself: those of the metrics, binners and
\* configured stackers of its binners, a derived column replaced by the
\* columns of its stacker.
ColumnsNeededBy(c) ==
    LET names == UNION { UNION {binList[b].metrics[m].colNameList :
                                    m \in DOMAIN binList[b].metrics}
                         \cup binList[b].columnsNeeded
                         \cup UNION {StackerCols(s) : s \in Range(binList[b].stackers)}
                       : b \in BinnersWith(c) }
    IN {n \in names : getDataSource(n) = "None"}
       \cup UNION {StackerCols(getDataSource(n)) :
                       n \in {x \in names : getDataSource(x) # "None"}}

\* C2: the columns requested for a constraint are exactly the columns its own
\* binners, metrics and stackers need, whatever was fetched before.
C2_ColumnsOfThisConstraintOnly ==
    \A k \in DOMAIN events :
        events[k].ev = "fetch" => events[k].cols = ColumnsNeededBy(events[k].constr)

\* C3 (as stated): two equal binners of one group are never each set up.
C3_EqualBinnersSetUpOnce ==
    \A o \in 1..NOpsim : \A c \in ConstraintStrings :
        \A k1, k2 \in EventsOf({"setup"}, o, c) :
            BinnerEq(binList[events[k1].binner], binList[events[k2].binner])
                => k1 = k2

\* C3 (amended): within one group setupBinner is called once per matching
\* binner, equal to another binner or not: never twice for the same binner,
\* exactly once before the binner's metrics are run, and exactly once for
\* every matching binner when run() has finished.
C3_SetupOncePerMatchingBinner ==
    /\ \A o \in 1..NOpsim : \A c \in ConstraintStrings : \A b \in DOMAIN binList :
          /\ Cardinality(BinnerEventsOf({"setup"}, o, c, b)) <= 1
          /\ b \notin BinnersWith(c) => BinnerEventsOf({"setup"}, o, c, b) = {}
    /\ \A k \in DOMAIN events :
          events[k].ev \in {"runBins", "runBinsRaised"} =>
             Cardinality({s \in BinnerEventsOf({"setup"}, events[k].opsim,
                                               events[k].constr, events[k].binner)
                            : s < k}) = 1
    /\ pc = "done" =>
          \A o \in 1..NOpsim : \A c \in DistinctConstraints : \A b \in BinnersWith(c) :
             Cardinality(BinnerEventsOf({"setup"}, o, c, b)) = 1

\* C3 witness: two equal binners of one group have both been set up.
C3_Witness ==
    \E o \in 1..NOpsim : \E c \in ConstraintStrings :
        \E k1, k2 \in EventsOf({"setup"}, o, c) :
            /\ k1 # k2
            /\ BinnerEq(binList[events[k1].binner], binList[events[k2].binner])

\* The fetch event of the group an event belongs to.
FetchOf(k) ==
    CHOOSE f \in EventsOf({"fetch"}, events[k].opsim, events[k].constr) : TRUE

BinnerSteps == {"setup", "runBins", "runBinsRaised", "reduce", "plot", "write"}

C9_StepOrder ==
    /\ \A k \in DOMAIN events :
          LET e == events[k]
              Before(kinds) == {p \in BinnerEventsOf(kinds, e.opsim, e.constr, e.binner)
                                  : p < k}
          IN /\ e.ev = "setup" =>
                   /\ \E f \in EventsOf({"fetch"}, e.opsim, e.constr) : f < k
                   /\ e.rows = dbRows[e.constr]
             /\ e.ev \in {"runBins", "runBinsRaised"} => Before({"setup"}) # {}
             /\ e.ev = "reduce" => Before({"runBins"}) # {}
             /\ e.ev = "plot" => Before({"reduce"}) # {}
             /\ e.ev = "write" => Before({"reduce"}) # {} /\ Before({"plot"}) # {}
             /\ e.ev = "save" =>
                   /\ k = Len(events)
                   /\ \A o \in 1..NOpsim : \A c \in DistinctConstraints :
                         \A b \in BinnersWith(c) :
                            BinnerEventsOf({"write"}, o, c, b) # {}
    /\ pc = "done" <=> (events # <<>> /\ events[Len(events)].ev = "save")

\* C9 witness: a finished run in which a group had two binners.
C9_Witness ==
    /\ pc = "done"
    /\ \E o \in 1..NOpsim : \E c \in ConstraintStrings :
          Cardinality(EventsOf({"write"}, o, c)) >= 2

Init == InitDriver /\ IdleGrid /\ IdleOneD /\ IdleSliceMetric

Spec == Init /\ [][NextDriver]_vars

(***************************************************************************)
(* BaseMetric.__init__ / registerCols and BaseGridMetric.runGrid.          *)
(***************************************************************************)
MaxPoints == 3      \* bound: largest number of gridpoints
badval == 0 - 666   \* BaseBinner.badval

GridRows == {1, 2}

\* The metric instances a process may construct: name (metricName), class,
\* colNameList,
\* what run computes, and the rows on which run raises.
MetricPool ==
    { [name |-> "Count_expMJD", cls |-> "CountMetric",
       colNameList |-> {"expMJD"}, kind |-> "Count", badRows |-> {}],
      [name |-> "Min_airmass", cls |-> "MinMetric",
       colNameList |-> {"airmass"}, kind |-> "Min", badRows |-> {2}],
      [name |-> "Count_seeing", cls |-> "CountMetric",
       colNameList |-> {"seeing"}, kind |-> "Count", badRows |-> {}] }

\* The tables runGrid may be handed (dtype.names).
SimDataChoices == { {"expMJD", "airmass"}, {"expMJD", "airmass", "seeing"} }

SetMin(S) == CHOOSE x \in S : \A y \in S : x <= y

\* m.run(simData[idxs]): the value of a row in every column is its number.
MetricRun(m, idxs) ==
    IF m.kind = "Count" THEN Cardinality(idxs)
    ELSE IF idxs = {} THEN 0 ELSE SetMin(idxs)

\* BaseMetric.registerCols: the columns are added to the set kept under the
\* metric's class name, which is created when it is not there.
registerCols(registry, myName, cols) ==
    LET reg == IF myName \in DOMAIN registry THEN registry
               ELSE registry @@ (myName :> {})
    IN [reg EXCEPT ![myName] = @ \cup cols]

\* ClassRegistry.uniqueCols.
uniqueCols(registry) == UNION {registry[k] : k \in DOMAIN registry}

\* A variant of PointValue without the test for an empty slice.
PointValueNoEmptyCheck(m, idxs) == MetricRun(m, idxs)

\* What runGrid stores for a metric at a gridpoint whose slice is idxs:
\* grid.badval when len(idxs) == 0, else m.run(simData[idxs]).
PointValue(m, idxs) == IF Cardinality(idxs) = 0 THEN badval ELSE MetricRun(m, idxs)

\* BaseMetric.__init__: a metric is constructed and registers its columns; it
\* is then put on the list that runGrid will be handed, or it is not.
ConstructMetric(m, inRun) ==
    /\ UNCHANGED <<dvars, ovars, svars>>
    /\ gpc = "config"
    /\ \A k \in DOMAIN metrics : metrics[k].name # m.name
    /\ classRegistry' = registerCols(classRegistry, m.cls, m.colNameList)
    /\ metrics' = IF inRun THEN Append(metrics, m) ELSE metrics
    /\ UNCHANGED <<simData, sliceCol, grid, metricValues, islice, runCalls,
                   gerr, gpc>>

\* runGrid, lines 66-92: the columns of the class registry of metrics[0] and
\* the slice column are looked up in simData (an exception names the first
\* missing one found), the value arrays are allocated with len(grid) entries
\* each, and the iteration over the grid starts (__iter__).
RunGridStart ==
    /\ UNCHANGED <<dvars, ovars, svars>>
    /\ gpc = "config"
    /\ metrics # <<>>
    /\ LET simCols == uniqueCols(classRegistry)
           missing == simCols \ simData
       IN IF missing # {}
          THEN /\ gerr' \in missing
               /\ gpc' = "raised"
               /\ UNCHANGED <<metricValues, islice>>
          ELSE IF sliceCol # "None" /\ sliceCol \notin simData
          THEN /\ gerr' = sliceCol
               /\ gpc' = "raised"
               /\ UNCHANGED <<metricValues, islice>>
          ELSE /\ metricValues' = [n \in {metrics[k].name : k \in DOMAIN metrics} |->
                                      [p \in 1..Len(grid) |-> <<>>]]
               /\ islice' = 0
               /\ gpc' = "loop"
               /\ gerr' = "None"
    /\ UNCHANGED <<classRegistry, metrics, simData, sliceCol, grid, runCalls>>

\* The metrics of the list, in order, up to and without the first whose run
\* raises on idxs.
RECURSIVE RunUntilRaise(_, _, _)
RunUntilRaise(ms, idxs, k) ==
    IF k > Len(ms) \/ (idxs # {} /\ MetricRaises(ms[k], idxs)) THEN {}
    ELSE {k} \cup RunUntilRaise(ms, idxs, k + 1)

\* runGrid, lines 95-103, one turn of the loop: next() hands out gridpoint
\* islice and advances, the point is sliced once, and every metric stores
\* badval at an empty point and its run's result otherwise. An exception of a
\* run leaves runGrid with the values stored so far.
RunGridPoint ==
    /\ UNCHANGED <<dvars, ovars, svars>>
    /\ gpc = "loop"
    /\ islice < Len(grid)
    /\ LET p == islice + 1
           idxs == grid[p]
           ran == RunUntilRaise(metrics, idxs, 1)
           raised == ran # DOMAIN metrics
       IN /\ islice' = islice + 1
          /\ metricValues' =
                [n \in DOMAIN metricValues |->
                    IF \E k \in ran : metrics[k].name = n
                    THEN [metricValues[n] EXCEPT ![p] =
                            <<PointValue(CHOOSE m \in Range(metrics) : m.name = n, idxs)>>]
                    ELSE metricValues[n]]
          /\ runCalls' = runCalls \cup
                {<<metrics[k].name, p>> : k \in {x \in DOMAIN metrics :
                     /\ idxs # {}
                     /\ (x \in ran \/ x = Cardinality(ran) + 1)}}
          /\ IF raised
             THEN gpc' = "raised" /\ gerr' = "run"
             ELSE gpc' = "loop" /\ gerr' = gerr
    /\ UNCHANGED <<classRegistry, metrics, simData, sliceCol, grid>>

\* next() raises StopIteration: the loop ends and runGrid returns.
RunGridReturn ==
    /\ UNCHANGED <<dvars, ovars, svars>>
    /\ gpc = "loop"
    /\ islice >= Len(grid)
    /\ gpc' = "done"
    /\ UNCHANGED <<classRegistry, metrics, simData, sliceCol, grid, metricValues,
                   islice, runCalls, gerr>>

InitGrid ==
    /\ classRegistry = <<>>
    /\ metrics = <<>>
    /\ simData \in SimDataChoices
    /\ sliceCol \in {"None", "airmass", "night"}
    /\ grid \in UNION {[1..n -> SUBSET GridRows] : n \in 0..MaxPoints}
    /\ metricValues = <<>>
    /\ islice = 0
    /\ runCalls = {}
    /\ gerr = "None"
    /\ gpc = "config"

NextGrid ==
    \/ \E m \in MetricPool : \E inRun \in BOOLEAN : ConstructMetric(m, inRun)
    \/ RunGridStart
    \/ RunGridPoint
    \/ RunGridReturn

InitGridSpec == IdleDriver /\ InitGrid /\ IdleOneD /\ IdleSliceMetric

SpecGrid == InitGridSpec /\ [][NextGrid]_vars

(***************************************************************************)
(* Claims about runGrid.                                                   *)
(***************************************************************************)
\* C4: when runGrid has returned, every metric of the list has an array of
\* len(grid) entries whose p-th entry belongs to the p-th gridpoint: badval,
\* with no call of the metric's run, when the point's slice is empty, and
\* otherwise the result of the metric's run on exactly the rows of the slice.
\* While the loop runs, the points done are exactly the first islice ones.
C4_ValuesFollowPointOrder ==
    /\ gpc \in {"loop", "done"} =>
          \A k \in DOMAIN metrics :
             LET arr == metricValues[metrics[k].name]
             IN /\ Len(arr) = Len(grid)
                /\ \A p \in 1..Len(grid) : (arr[p] # <<>>) <=> (p <= islice)
    /\ gpc = "done" =>
          /\ islice = Len(grid)
          /\ \A k \in DOMAIN metrics : \A p \in 1..Len(grid) :
                LET m == metrics[k]
                IN /\ metricValues[m.name][p] =
                         IF grid[p] = {} THEN <<badval>>
                         ELSE <<MetricRun(m, grid[p])>>
                   /\ (<<m.name, p>> \in runCalls) <=> (grid[p] # {})

\* C4 witness: runGrid has returned for two metrics over a grid that has an
\* empty and a non-empty point.
C4_Witness ==
    /\ gpc = "done"
    /\ Len(metrics) = 2
    /\ \E p, q \in 1..Len(grid) : p < q /\ grid[p] = {} /\ grid[q] # {}

\* C5: when a metric's run raises at a gridpoint, the entry of that point is
\* badval, the entries of all other points hold their results, and the
\* evaluation goes on to its end.
C5_RaisingPointMaskedRestPopulated ==
    (gpc = "done" \/ (gpc = "raised" /\ gerr = "run")) =>
        \A k \in DOMAIN metrics : \A p \in 1..Len(grid) :
            LET m == metrics[k]
            IN metricValues[m.name][p] =
                  IF grid[p] = {} \/ MetricRaises(m, grid[p]) THEN <<badval>>
                  ELSE <<MetricRun(m, grid[p])>>

\* C7: the column validation of runGrid fails only for a column that a metric
\* of the list being run declares, or for the slice column, and that is
\* missing from the table.
C7_OnlyColumnsOfThisRunAreValidated ==
    (gpc = "raised" /\ gerr # "run") =>
        /\ gerr \notin simData
        /\ gerr \in UNION {metrics[k].colNameList : k \in DOMAIN metrics}
                    \cup {sliceCol}

(***************************************************************************)
(* OneDSlicer: __init__, setupSlicer and the slice lookup it installs.     *)
(* An optional number is <<>> (None) or <<v>>. Row positions and slice     *)
(* numbers are counted from 1 here and from 0 in the source.               *)
(***************************************************************************)
MaxRows == 2        \* bound: largest number of rows of a table
MaxVal == 3         \* bound: largest value of the slice column
MaxSetups == 2      \* bound: number of setupSlicer calls on one slicer

\* A column valued 0, 1, ..., 9.
TenRows == [k \in 1..10 |-> k - 1]

\* The slice columns of the tables handed to setupSlicer.
Tables == UNION {[1..n -> 0..MaxVal] : n \in 0..MaxRows} \cup {TenRows}

\* The constructor arguments in use: sliceColName, bins, binMin, binMax and
\* binsize. A bins argument that is a sequence is in bins, one that is a single
\* number (the number of bins) is in nbins.
OneDSlicerArgs ==
    { [sliceColName |-> "night", bins |-> <<0, 1, 2>>, nbins |-> <<>>,
       binMin |-> <<>>, binMax |-> <<>>, binsize |-> <<>>],
      [sliceColName |-> "night", bins |-> <<2, 0>>, nbins |-> <<>>,
       binMin |-> <<0>>, binMax |-> <<2>>, binsize |-> <<>>],
      [sliceColName |-> "night", bins |-> <<>>, nbins |-> <<>>,
       binMin |-> <<0>>, binMax |-> <<2>>, binsize |-> <<1>>],
      [sliceColName |-> "night", bins |-> <<>>, nbins |-> <<>>,
       binMin |-> <<>>, binMax |-> <<>>, binsize |-> <<2>>],
      [sliceColName |-> "night", bins |-> <<>>, nbins |-> <<>>,
       binMin |-> <<0>>, binMax |-> <<>>, binsize |-> <<2>>],
      [sliceColName |-> "night", bins |-> <<>>, nbins |-> <<1>>,
       binMin |-> <<>>, binMax |-> <<>>, binsize |-> <<>>],
      [sliceColName |-> "night", bins |-> <<1>>, nbins |-> <<>>,
       binMin |-> <<>>, binMax |-> <<>>, binsize |-> <<>>] }

\* OneDSlicer.__init__ (and BaseSlicer.__init__): the arguments are stored,
\* nslice is None, slicePoints is an empty dictionary and no slice lookup is
\* installed. islice exists only after __iter__. ctor keeps the constructor
\* arguments for reference; the program does not read it.
NewOneDSlicer(args) ==
    [sliceColName |-> args.sliceColName, bins |-> args.bins, nbins |-> args.nbins,
     binMin |-> args.binMin, binMax |-> args.binMax,
     binsize |-> args.binsize, nslice |-> <<>>, slicePoints |-> <<>>,
     simIdxs |-> <<>>, left |-> <<>>, isSetup |-> FALSE, warned |-> FALSE,
     islice |-> <<>>, ctor |-> args]

SeqMin(t) == CHOOSE x \in Range(t) : \A y \in Range(t) : x <= y
SeqMax(t) == CHOOSE x \in Range(t) : \A y \in Range(t) : x >= y

\* np.sort of a sequence of numbers.
RECURSIVE Insert(_, _)
Insert(x, sorted) ==
    IF sorted = <<>> THEN <<x>>
    ELSE IF x <= Head(sorted) THEN <<x>> \o sorted
    ELSE <<Head(sorted)>> \o Insert(x, Tail(sorted))

RECURSIVE Sort(_)
Sort(t) == IF t = <<>> THEN <<>> ELSE Insert(Head(t), Sort(Tail(t)))

\* np.argsort: the row positions in the order of their values (rows of equal
\* value in some order; here in the order of the table).
RECURSIVE InsertRow(_, _, _)
InsertRow(t, r, p) ==
    IF p = <<>> THEN <<r>>
    ELSE IF t[r] < t[Head(p)] THEN <<r>> \o p
    ELSE <<Head(p)>> \o InsertRow(t, r, Tail(p))

RECURSIVE argsortUpTo(_, _)
argsortUpTo(t, n) == IF n = 0 THEN <<>> ELSE InsertRow(t, n, argsortUpTo(t, n - 1))

argsort(t) == argsortUpTo(t, Len(t))

\* np.searchsorted(sorted values, e, 'left'): the number of values below e.
searchsortedLeft(t, e) == Cardinality({k \in DOMAIN t : t[k] < e})

\* A variant of arangeFrom that stops at binMax, without the half step.
RECURSIVE arangeToBinMax(_, _, _)
arangeToBinMax(x, binMax, step) ==
    IF x < binMax
    THEN <<x>> \o arangeToBinMax(x + step, binMax, step)
    ELSE <<>>

\* np.arange(start, stop, step) for stop = binMax + binsize/2.0 and whole start
\* and step: start + k*step for every k with start + k*step < stop.
RECURSIVE arangeFrom(_, _, _)
arangeFrom(x, binMax, step) ==
    IF 2 * x < 2 * binMax + step
    THEN <<x>> \o arangeFrom(x + step, binMax, step)
    ELSE <<>>

\* setupSlicer, lines 92-97, with the last value's lookup left out, as the
\* source has it: left holds, for each bin value but the last, the number of
\* rows below it, followed by the number of rows.
leftOf(t, bins) ==
    [k \in 1..Len(bins) |->
        IF k < Len(bins) THEN searchsortedLeft(t, bins[k]) ELSE Len(t)]

\* A variant of degenerateBinMax that adds one bin size.
oneBinsizeBinMax(binMax, binsize) ==
    IF binsize # <<>> THEN binMax + binsize[1] ELSE binMax + 1

\* setupSlicer, lines 58-61: binMax when binMin == binMax.
degenerateBinMax(binMax, binsize) ==
    IF binsize # <<>> THEN binMax + 2 * binsize[1] ELSE binMax + 1

\* setupSlicer on table t; the outcome is the slicer afterwards, whether the
\* call raised, the range limits found at lines 50-53 and the branch of lines
\* 64-84 that set the bins. min() and max() of
\* an empty column raise. With a number of bins the bin size is
\* (binMax - binMin) / float(nbins); the numbers of bins in use divide the
\* range, so that the quotient is a whole number.
setupSlicer(s, t) ==
    IF (s.binMin = <<>> \/ s.binMax = <<>>) /\ t = <<>>
    THEN [raised |-> TRUE, slicer |-> s, range |-> <<>>, path |-> "None"]
    ELSE
    LET binMin0 == IF s.binMin = <<>> THEN SeqMin(t) ELSE s.binMin[1]
        binMax0 == IF s.binMax = <<>> THEN SeqMax(t) ELSE s.binMax[1]
        warn == binMin0 = binMax0
        binMax1 == IF warn THEN degenerateBinMax(binMax0, s.binsize) ELSE binMax0
        usesize == s.binsize # <<>>
        useseq == ~usesize /\ s.nbins = <<>>
        binsize3 == IF usesize THEN s.binsize[1]
                    ELSE IF useseq THEN 0
                    ELSE (binMax1 - binMin0) \div s.nbins[1]
        binMin2 == IF usesize THEN binMin0 - s.binsize[1] ELSE binMin0
        binMax2 == IF usesize THEN binMax1 + s.binsize[1] ELSE binMax1
        bins == IF useseq THEN Sort(s.bins)
                ELSE arangeFrom(binMin2, binMax2, binsize3)
        binMin3 == IF useseq THEN bins[1] ELSE binMin2
        binMax3 == IF useseq THEN bins[Len(bins)] ELSE binMax2
    IN [raised |-> FALSE,
        range |-> <<binMin0, binMax0>>,
        path |-> IF usesize THEN "binsize" ELSE IF useseq THEN "bins" ELSE "nbins",
        slicer |-> [sliceColName |-> s.sliceColName,
                    bins |-> bins, nbins |-> <<>>,
                    binMin |-> <<binMin3>>, binMax |-> <<binMax3>>,
                    binsize |-> IF useseq THEN <<>> ELSE <<binsize3>>,
                    nslice |-> <<Len(bins) - 1>>,
                    slicePoints |-> [sid |-> [k \in 1..(Len(bins) - 1) |-> k - 1],
                                     bins |-> bins],
                    simIdxs |-> argsort(t), left |-> leftOf(t, bins),
                    isSetup |-> TRUE, warned |-> warn,
                    islice |-> s.islice, ctor |-> s.ctor]]

\* The lookup setupSlicer installs: simIdxs[left[islice]:left[islice+1]].
sliceIdxs(s, isl) ==
    [k \in 1..(s.left[isl + 1] - s.left[isl]) |-> s.simIdxs[s.left[isl] + k]]

\* A slicer is constructed.
Construct(args) ==
    /\ UNCHANGED <<dvars, gvars, svars>>
    /\ slicer = <<>>
    /\ slicer' = NewOneDSlicer(args)
    /\ result' = [op |-> "init", islice |-> 0, idxs |-> <<>>, raised |-> FALSE]
    /\ UNCHANGED <<table, nsetup, mvals, file, back>>

\* slicer.setupSlicer(simData); an exception leaves the slicer as it was.
SetupSlicer(t) ==
    /\ UNCHANGED <<dvars, gvars, svars>>
    /\ slicer # <<>>
    /\ nsetup < MaxSetups
    /\ LET out == setupSlicer(slicer, t)
       IN /\ slicer' = out.slicer
          /\ result' = [op |-> "setup", islice |-> 0, idxs |-> <<>>,
                        raised |-> out.raised, range |-> out.range,
                        path |-> out.path]
    /\ table' = t
    /\ nsetup' = nsetup + 1
    /\ UNCHANGED <<mvals, file, back>>

\* slicer[isl] (__getitem__): the installed lookup, or, before any
\* setupSlicer, BaseSlicer._sliceSimData, which raises NotImplementedError.
Resolve(isl) ==
    /\ UNCHANGED <<dvars, gvars, svars>>
    /\ slicer # <<>>
    /\ IF slicer.isSetup
       THEN /\ isl <= slicer.nslice[1]
            /\ result' = [op |-> "resolve", islice |-> isl,
                          idxs |-> sliceIdxs(slicer, isl), raised |-> FALSE]
       ELSE result' = [op |-> "resolve", islice |-> isl, idxs |-> <<>>,
                       raised |-> TRUE]
    /\ UNCHANGED <<slicer, table, nsetup, mvals, file, back>>

InitOneD ==
    /\ slicer = <<>>
    /\ table = <<>>
    /\ nsetup = 0
    /\ result = <<>>
    /\ mvals = <<>>
    /\ file = <<>>
    /\ back = <<>>

InitOneDSpec == IdleDriver /\ IdleGrid /\ InitOneD /\ IdleSliceMetric

NextOneD ==
    \/ \E args \in OneDSlicerArgs : Construct(args)
    \/ \E t \in Tables : SetupSlicer(t)
    \/ \E isl \in 1..(MaxVal + 4) : Resolve(isl)

SpecOneD == InitOneDSpec /\ [][NextOneD]_vars

(***************************************************************************)
(* Claims about OneDSlicer.                                                *)
(***************************************************************************)
\* The rows of the table whose value satisfies a test.
ResolvedRows == Range(result.idxs)

\* C10: after setupSlicer, with e the bin values and N = nslice, slice i < N
\* holds exactly the rows with e[i] <= v < e[i+1], the last slice exactly the
\* rows with e[N] <= v <= e[N+1], and so a row with a value outside
\* [e[1], e[N+1]] is in no slice.
C10_SliceHoldsItsBinExactly ==
    (slicer # <<>> /\ result.op = "resolve" /\ ~result.raised) =>
        LET e == slicer.bins
            N == slicer.nslice[1]
            k == result.islice
        IN ResolvedRows =
              {r \in DOMAIN table :
                  /\ e[k] <= table[r]
                  /\ IF k < N THEN table[r] < e[k + 1] ELSE table[r] <= e[k + 1]}

\* C6: setupSlicer on a table without rows does not raise.
C6_EmptyTableSetsUp ==
    (slicer # <<>> /\ result.op = "setup" /\ table = <<>>) => ~result.raised

(***************************************************************************)
(* Slicers that are constructed and set up, once or again.                 *)
(***************************************************************************)
NextSetup ==
    \/ \E args \in OneDSlicerArgs : Construct(args)
    \/ \E t \in Tables : SetupSlicer(t)

SpecSetup == InitOneDSpec /\ [][NextSetup]_vars

\* A slicer is constructed and set up once, as the driver does for a slicer
\* that matches one constraint.
SetupOnce(t) == nsetup = 0 /\ SetupSlicer(t)

NextSetupOnce ==
    \/ \E args \in OneDSlicerArgs : Construct(args)
    \/ \E t \in Tables : SetupOnce(t)

SpecSetupOnce == InitOneDSpec /\ [][NextSetupOnce]_vars

\* The last call was a setupSlicer that returned.
SetupReturned == slicer # <<>> /\ result.op = "setup" /\ ~result.raised

\* The number of rows slice k of the slicer holds, for k = 1..n, and their sum.
SliceCounts(s, n) == [k \in 1..n |-> Len(sliceIdxs(s, k))]

RECURSIVE SumSeq(_)
SumSeq(q) == IF q = <<>> THEN 0 ELSE Head(q) + SumSeq(Tail(q))

\* Row r has a value in the bin k of the bin values e (N bins): half-open, the
\* last bin closed.
InBin(e, N, k, v) ==
    /\ e[k] <= v
    /\ IF k < N THEN v < e[k + 1] ELSE v <= e[k + 1]

\* C11: after setupSlicer no row is in two slices, and the numbers of rows of
\* the slices add up to the number of rows whose value lies in one of the bins.
C11_SlicesPartitionRowsInBins ==
    SetupReturned =>
        LET N == slicer.nslice[1]
            e == slicer.bins
        IN /\ \A a, b \in 1..N :
                 a # b => Range(sliceIdxs(slicer, a)) \cap Range(sliceIdxs(slicer, b)) = {}
           /\ SumSeq(SliceCounts(slicer, N)) =
                 Cardinality({r \in DOMAIN table :
                                 \E k \in 1..N : InBin(e, N, k, table[r])})

\* The first setupSlicer of a slicer constructed with a bin size returned.
FirstSetupWithBinsize ==
    SetupReturned /\ nsetup = 1 /\ slicer.ctor.binsize # <<>>

\* C12 (as stated): with a bin size b and a start value binMin the bin values
\* are binMin, binMin + b, ..., with no bin below binMin and none that starts
\* above the largest value; for the column 0..9 with b = 2 from 0 there are 5
\* bins of 2 rows each.
C12_BinsStartAtBinMin ==
    (FirstSetupWithBinsize /\ slicer.ctor.binMin # <<>>) =>
        LET N == slicer.nslice[1]
            e == slicer.bins
            b == slicer.ctor.binsize[1]
        IN /\ e[1] = slicer.ctor.binMin[1]
           /\ \A k \in 1..N : e[k + 1] = e[k] + b
           /\ (table # <<>> /\ N >= 1) => e[N] <= SeqMax(table)
           /\ (table = TenRows /\ b = 2 /\ slicer.ctor.binMin = <<0>>
                  /\ slicer.ctor.binMax = <<>>) =>
                 SliceCounts(slicer, N) = <<2, 2, 2, 2, 2>>

\* C12 (amended): with a bin size b the bin values are lo - b, lo, lo + b, ...
\* in steps of b up to the last one below hi + b + b/2, where lo is binMin (or
\* the smallest value) and hi is binMax (or the largest value), moved up by 2b
\* when lo = hi: one bin is added below lo and the range is extended by b above
\* hi. For the column 0..9 with b = 2 from 0 there are 6 bins holding 0, 2, 2,
\* 2, 2, 2 rows.
C12_BinsPaddedByBinsize ==
    FirstSetupWithBinsize =>
        LET N == slicer.nslice[1]
            e == slicer.bins
            b == slicer.ctor.binsize[1]
            lo == result.range[1]
            hi == IF lo = result.range[2] THEN result.range[2] + 2 * b
                  ELSE result.range[2]
        IN /\ slicer.ctor.binMin # <<>> => lo = slicer.ctor.binMin[1]
           /\ e[1] = lo - b
           /\ \A k \in 1..N : e[k + 1] = e[k] + b
           /\ 2 * e[N + 1] < 2 * (hi + b) + b
           /\ 2 * (e[N + 1] + b) >= 2 * (hi + b) + b
           /\ (table = TenRows /\ b = 2 /\ slicer.ctor.binMin = <<0>>
                  /\ slicer.ctor.binMax = <<>>) =>
                 SliceCounts(slicer, N) = <<0, 2, 2, 2, 2, 2>>

\* C12 witness: the column 0..9 was binned with bin size 2 from 0.
C12_Witness ==
    /\ FirstSetupWithBinsize
    /\ table = TenRows
    /\ slicer.ctor.binsize = <<2>>
    /\ slicer.ctor.binMin = <<0>>
    /\ slicer.ctor.binMax = <<>>

\* setupSlicer found binMin == binMax at line 55.
DegenerateSetup == SetupReturned /\ result.range[1] = result.range[2]

\* C13: setupSlicer with binMin == binMax returns, warns, and leaves at least
\* one bin, with strictly increasing bin values.
C13_DegenerateRangeGivesABin ==
    DegenerateSetup =>
        /\ slicer.warned
        /\ slicer.nslice[1] >= 1
        /\ \A k \in 1..slicer.nslice[1] : slicer.bins[k] < slicer.bins[k + 1]

\* C14 (as stated): when binMin == binMax the upper limit ends one bin size
\* (or 1, without a bin size) above it and the lower limit stays.
C14_UpperLimitMovedByOneBinsize ==
    DegenerateSetup =>
        /\ slicer.binMin[1] = result.range[1]
        /\ slicer.binMax[1] =
              IF result.path = "binsize" THEN result.range[2] + slicer.binsize[1]
              ELSE result.range[2] + 1

\* C14 (amended): when binMin == binMax, binMax is raised by two bin sizes if a
\* bin size is set and by 1 if not; with a bin size the range is then extended
\* by one bin size on both sides; with a number of bins the limits stay at
\* binMin and binMin + 1; with a sequence of bin values both limits are
\* replaced by the first and the last bin value.
C14_UpperLimitMovedByTwoBinsizes ==
    DegenerateSetup =>
        LET lo == result.range[1]
        IN /\ slicer.warned
           /\ result.path = "binsize" =>
                 /\ slicer.binMin[1] = lo - slicer.binsize[1]
                 /\ slicer.binMax[1] = lo + 3 * slicer.binsize[1]
           /\ result.path = "nbins" =>
                 /\ slicer.binMin[1] = lo
                 /\ slicer.binMax[1] = lo + 1
           /\ result.path = "bins" =>
                 /\ slicer.binMin[1] = slicer.bins[1]
                 /\ slicer.binMax[1] = slicer.bins[Len(slicer.bins)]

\* C14 witness: a slicer with a bin size was set up on a single-valued column.
C14_Witness ==
    /\ DegenerateSetup
    /\ result.path = "binsize"
    /\ Len(table) = 2

\* C16: after any setupSlicer the bin values, the number of slices and the row
\* index are those of a new slicer with the same constructor arguments set up
\* once on the same table.
C16_SetupAgainIsSetupAfresh ==
    SetupReturned =>
        LET fresh == setupSlicer(NewOneDSlicer(slicer.ctor), table)
        IN /\ ~fresh.raised
           /\ fresh.slicer.bins = slicer.bins
           /\ fresh.slicer.nslice = slicer.nslice
           /\ fresh.slicer.simIdxs = slicer.simIdxs
           /\ fresh.slicer.left = slicer.left

(***************************************************************************)
(* Iteration over a slicer (BaseSlicer.__iter__ and next).                 *)
(***************************************************************************)
\* iter(slicer): the position is set to 0.
Iter ==
    /\ UNCHANGED <<dvars, gvars, svars>>
    /\ slicer # <<>>
    /\ slicer' = [slicer EXCEPT !.islice = <<0>>]
    /\ result' = [op |-> "iter", islice |-> 0, idxs |-> <<>>, raised |-> FALSE]
    /\ UNCHANGED <<table, nsetup, mvals, file, back>>

\* The test of next(), islice >= nslice. The source is Python 2, where None
\* is smaller than every number, so that the test is true when nslice is None.
pastLastSlice(s) == s.nslice = <<>> \/ s.islice[1] >= s.nslice[1]

\* slicer.next(): StopIteration when islice >= nslice, else the position moves
\* on and _sliceSimData(islice) is returned (slices are counted from 1 here).
NextSlice ==
    /\ UNCHANGED <<dvars, gvars, svars>>
    /\ slicer # <<>>
    /\ slicer.islice # <<>>
    /\ IF pastLastSlice(slicer)
       THEN /\ result' = [op |-> "next", islice |-> 0, idxs |-> <<>>,
                          raised |-> FALSE, stop |-> TRUE]
            /\ UNCHANGED slicer
       ELSE /\ slicer' = [slicer EXCEPT !.islice = <<slicer.islice[1] + 1>>]
            /\ result' = [op |-> "next", islice |-> slicer.islice[1] + 1,
                          idxs |-> IF slicer.isSetup
                                   THEN sliceIdxs(slicer, slicer.islice[1] + 1)
                                   ELSE <<>>,
                          raised |-> ~slicer.isSetup, stop |-> FALSE]
    /\ UNCHANGED <<table, nsetup, mvals, file, back>>

NextIter ==
    \/ \E args \in OneDSlicerArgs : Construct(args)
    \/ \E t \in Tables : SetupOnce(t)
    \/ \E isl \in 1..(MaxVal + 4) : Resolve(isl)
    \/ Iter
    \/ NextSlice

SpecIter == InitOneDSpec /\ [][NextIter]_vars

\* C15: before any setupSlicer, resolving a slice by index and by iteration
\* both raise; an iteration never just ends without a slice.
C15_ResolveBeforeSetupRaises ==
    (slicer # <<>> /\ ~slicer.isSetup /\ result.op \in {"resolve", "next"}) =>
        result.raised

(***************************************************************************)
(* Equality of slicers (OneDSlicer.__eq__).                                *)
(***************************************************************************)
\* The columns a slicer may be constructed for.
SliceColNames == {"night", "expMJD"}

\* What self.bins is: None, the number of bins or the list given to the
\* constructor, or, once setupSlicer has returned, a numpy array.
binsKind(s) ==
    IF s.isSetup THEN "array"
    ELSE IF s.nbins # <<>> THEN "number"
    ELSE IF s.bins # <<>> THEN "list"
    ELSE "None"

\* The truth value of self.bins in 'if self.bins and otherSlicer.bins': None
\* and 0 are false, a list with elements is true, a numpy array of one
\* element has the truth value of the element, an empty one is false, and
\* the truth value of an array of more elements raises ValueError.
binsTruth(s) ==
    CASE binsKind(s) = "None" -> "False"
      [] binsKind(s) = "number" -> IF s.nbins[1] # 0 THEN "True" ELSE "False"
      [] binsKind(s) = "list" -> "True"
      [] binsKind(s) = "array" ->
            IF Len(s.bins) > 1 THEN "raise"
            ELSE IF Len(s.bins) = 1 /\ s.bins[1] # 0 THEN "True" ELSE "False"

\* The truth value of a number or None: None and 0 are false.
truth(x) == x # <<>> /\ x[1] # 0

\* np.all(a == b) for two sequences of which one at least is a numpy array:
\* element by element when the lengths agree, against the single element when
\* one has length 1, and False when the shapes do not fit.
allEqual(a, b) ==
    IF Len(a) = Len(b) THEN \A k \in DOMAIN a : a[k] = b[k]
    ELSE IF Len(a) = 1 THEN \A k \in DOMAIN b : b[k] = a[1]
    ELSE IF Len(b) = 1 THEN \A k \in DOMAIN a : a[k] = b[1]
    ELSE FALSE

\* np.all(self.bins == otherSlicer.bins), both being true: two numbers or two
\* lists are compared as Python compares them, a number and a list are
\* unequal, and a comparison with an array is made element by element.
binsMatch(a, b) ==
    LET ka == binsKind(a)
        kb == binsKind(b)
    IN CASE ka = "number" /\ kb = "number" -> a.nbins = b.nbins
         [] ka = "number" /\ kb = "list" -> FALSE
         [] ka = "list" /\ kb = "number" -> FALSE
         [] ka = "number" /\ kb = "array" -> \A k \in DOMAIN b.bins : b.bins[k] = a.nbins[1]
         [] ka = "array" /\ kb = "number" -> \A k \in DOMAIN a.bins : a.bins[k] = b.nbins[1]
         [] ka = "list" /\ kb = "list" -> a.bins = b.bins
         [] OTHER -> allEqual(a.bins, b.bins)

\* OneDSlicer.__eq__(self, otherSlicer) for two OneDSlicers: "True", "False",
\* or "raise" when the comparison raises.
eqSlicer(self, otherSlicer) ==
    IF self.sliceColName # otherSlicer.sliceColName THEN "False"
    ELSE IF self.slicePoints # <<>> /\ otherSlicer.slicePoints # <<>>
    THEN IF allEqual(otherSlicer.slicePoints.bins, self.slicePoints.bins)
         THEN "True" ELSE "False"
    ELSE IF binsTruth(self) = "raise" THEN "raise"
    ELSE IF binsTruth(self) = "True" /\ binsTruth(otherSlicer) = "raise" THEN "raise"
    ELSE IF binsTruth(self) = "True" /\ binsTruth(otherSlicer) = "True"
    THEN IF binsMatch(self, otherSlicer) THEN "True" ELSE "False"
    ELSE IF /\ truth(self.binsize) /\ truth(self.binMin) /\ truth(self.binMax)
            /\ truth(otherSlicer.binsize) /\ truth(otherSlicer.binMin)
            /\ truth(otherSlicer.binMax)
            /\ self.binsize = otherSlicer.binsize
            /\ self.binMin = otherSlicer.binMin
            /\ self.binMax = otherSlicer.binMax
    THEN "True"
    ELSE "False"

\* Another slicer is constructed, set up on a table of its own or not, and the
\* slicer is compared with itself and, both ways, with the other one. One
\* comparison is made after a construction or a setup.
Compare(args, col, t, setup) ==
    /\ UNCHANGED <<dvars, gvars, svars>>
    /\ slicer # <<>>
    /\ result.op # "eq"
    /\ LET new == NewOneDSlicer([args EXCEPT !.sliceColName = col])
           otherSlicer == IF setup THEN setupSlicer(new, t).slicer ELSE new
       IN result' = [op |-> "eq", islice |-> 0, idxs |-> <<>>, raised |-> FALSE,
                     selfeq |-> eqSlicer(slicer, slicer),
                     ab |-> eqSlicer(slicer, otherSlicer),
                     ba |-> eqSlicer(otherSlicer, slicer),
                     otherSlicer |-> otherSlicer]
    /\ UNCHANGED <<slicer, table, nsetup, mvals, file, back>>

NextEq ==
    \/ \E args \in OneDSlicerArgs : Construct(args)
    \/ \E t \in Tables : SetupOnce(t)
    \/ \E args \in OneDSlicerArgs, col \in SliceColNames, t \in Tables,
          setup \in BOOLEAN : Compare(args, col, t, setup)

SpecEq == InitOneDSpec /\ [][NextEq]_vars

\* C17: a slicer is equal to itself, a == b and b == a agree, and two slicers
\* constructed for the same column with the same sequence of bin values are
\* equal, whether either has been set up, and on whichever table, or not.
C17_EqualByDefinitionOnly ==
    (slicer # <<>> /\ result.op = "eq") =>
        /\ result.selfeq = "True"
        /\ result.ab = result.ba
        /\ (result.otherSlicer.ctor = slicer.ctor /\ slicer.ctor.bins # <<>>) =>
              result.ab = "True"

(***************************************************************************)
(* Saving and restoring metric values and the slicer (BaseSlicer.writeData *)
(* and readData), and the older BaseBinner.writeMetricDataGeneric and      *)
(* readMetricDataGeneric.                                                  *)
(***************************************************************************)
\* Metric value arrays: masked arrays (data, mask, fill value) and plain
\* arrays. One has an entry masked, one an unmasked entry that equals the bad
\* value, one a value under the mask, one is empty.
MetricValueSamples ==
    { [masked |-> TRUE, data |-> <<1, badval>>, mask |-> <<FALSE, TRUE>>, fill |-> <<badval>>],
      [masked |-> TRUE, data |-> <<badval, 1>>, mask |-> <<FALSE, FALSE>>, fill |-> <<badval>>],
      [masked |-> TRUE, data |-> <<2, 1>>, mask |-> <<TRUE, FALSE>>, fill |-> <<badval>>],
      [masked |-> TRUE, data |-> <<>>, mask |-> <<>>, fill |-> <<badval>>],
      [masked |-> FALSE, data |-> <<1, 2>>, mask |-> <<>>, fill |-> <<>>],
      [masked |-> FALSE, data |-> <<badval>>, mask |-> <<>>, fill |-> <<>>] }

\* The mask of an array; a plain array and a masked array made without a mask
\* have no entry masked.
maskOf(mv) == IF mv.masked THEN mv.mask ELSE [k \in DOMAIN mv.data |-> FALSE]

\* writeData: the npz file of the metric values and the slicer. mask and fill
\* are None for a plain array.
npzOf(s, mv) ==
    [format |-> "npz",
     metricValues |-> mv.data,
     mask |-> IF mv.masked THEN <<mv.mask>> ELSE <<>>,
     fill |-> IF mv.masked THEN mv.fill ELSE <<>>,
     slicer_init |-> [sliceColName |-> s.sliceColName],
     slicerName |-> "OneDSlicer",
     slicePoints |-> s.slicePoints,
     slicerNSlice |-> s.nslice]

\* readData, lines 327-333: the masked array of the file.
loadedValues(f) ==
    IF f.mask = <<>>
    THEN [masked |-> FALSE, data |-> f.metricValues, mask |-> <<>>, fill |-> <<>>]
    ELSE [masked |-> TRUE, data |-> f.metricValues, mask |-> f.mask[1], fill |-> f.fill]

\* A variant of restoredSlicer that does not restore the slice points.
restoredFromInitOnly(f) ==
    [NewOneDSlicer([sliceColName |-> f.slicer_init.sliceColName, bins |-> <<>>,
                    nbins |-> <<>>, binMin |-> <<>>, binMax |-> <<>>,
                    binsize |-> <<>>])
        EXCEPT !.nslice = f.slicerNSlice]

\* readData, lines 335-349: the slicer is constructed from slicer_init (the
\* column; no bins, limits or bin size) and given the number of slices and
\* the slice points of the file. No slice lookup is installed.
restoredSlicer(f) ==
    [NewOneDSlicer([sliceColName |-> f.slicer_init.sliceColName, bins |-> <<>>,
                    nbins |-> <<>>, binMin |-> <<>>, binMax |-> <<>>,
                    binsize |-> <<>>])
        EXCEPT !.nslice = f.slicerNSlice, !.slicePoints = f.slicePoints]

\* ma.filled(metricValues, use_badval).
filled(mv, bad) ==
    [k \in DOMAIN mv.data |-> IF maskOf(mv)[k] THEN bad ELSE mv.data[k]]

\* writeMetricDataGeneric for numbers: the filled values and the bad values
\* in the header.
fitsOf(mv) ==
    [format |-> "fits", metricValues |-> filled(mv, badval),
     badval |-> badval, int_badval |-> badval]

\* readMetricDataGeneric, lines 151-158: the mask is set where a value
\* equals a bad value.
genericValues(f) ==
    [masked |-> TRUE, data |-> f.metricValues,
     mask |-> [k \in DOMAIN f.metricValues |->
                  f.metricValues[k] = f.badval \/ f.metricValues[k] = f.int_badval],
     fill |-> <<badval>>]

\* slicer.writeData(outfilename, metricValues)
WriteData(mv) ==
    /\ UNCHANGED <<dvars, gvars, svars>>
    /\ slicer # <<>>
    /\ file = <<>>
    /\ mvals' = mv
    /\ file' = npzOf(slicer, mv)
    /\ result' = [op |-> "write", islice |-> 0, idxs |-> <<>>, raised |-> FALSE]
    /\ UNCHANGED <<slicer, table, nsetup, back>>

\* metricValues, slicer, header = slicer.readData(infilename)
ReadData ==
    /\ UNCHANGED <<dvars, gvars, svars>>
    /\ file # <<>>
    /\ file.format = "npz"
    /\ back = <<>>
    /\ back' = [metricValues |-> loadedValues(file), slicer |-> <<restoredSlicer(file)>>]
    /\ result' = [op |-> "read", islice |-> 0, idxs |-> <<>>, raised |-> FALSE]
    /\ UNCHANGED <<slicer, table, nsetup, mvals, file>>

\* binner.writeMetricDataGeneric(outfilename, metricValues)
WriteMetricDataGeneric(mv) ==
    /\ UNCHANGED <<dvars, gvars, svars>>
    /\ slicer # <<>>
    /\ file = <<>>
    /\ mvals' = mv
    /\ file' = fitsOf(mv)
    /\ result' = [op |-> "write", islice |-> 0, idxs |-> <<>>, raised |-> FALSE]
    /\ UNCHANGED <<slicer, table, nsetup, back>>

\* metricValues, head = binner.readMetricDataGeneric(infilename); no slicer is
\* restored.
ReadMetricDataGeneric ==
    /\ UNCHANGED <<dvars, gvars, svars>>
    /\ file # <<>>
    /\ file.format = "fits"
    /\ back = <<>>
    /\ back' = [metricValues |-> genericValues(file), slicer |-> <<>>]
    /\ result' = [op |-> "read", islice |-> 0, idxs |-> <<>>, raised |-> FALSE]
    /\ UNCHANGED <<slicer, table, nsetup, mvals, file>>

\* restored[isl] (__getitem__) on the restored slicer.
ResolveRestored(isl) ==
    /\ UNCHANGED <<dvars, gvars, svars>>
    /\ back # <<>>
    /\ back.slicer # <<>>
    /\ LET s == back.slicer[1]
       IN IF s.isSetup
          THEN /\ isl <= s.nslice[1]
               /\ result' = [op |-> "resolveRestored", islice |-> isl,
                             idxs |-> sliceIdxs(s, isl), raised |-> FALSE]
          ELSE result' = [op |-> "resolveRestored", islice |-> isl,
                          idxs |-> <<>>, raised |-> TRUE]
    /\ UNCHANGED <<slicer, table, nsetup, mvals, file, back>>

\* iter(restored)
IterRestored ==
    /\ UNCHANGED <<dvars, gvars, svars>>
    /\ back # <<>>
    /\ back.slicer # <<>>
    /\ back' = [back EXCEPT !.slicer[1].islice = <<0>>]
    /\ result' = [op |-> "iterRestored", islice |-> 0, idxs |-> <<>>, raised |-> FALSE]
    /\ UNCHANGED <<slicer, table, nsetup, mvals, file>>

\* restored.next()
NextSliceRestored ==
    /\ UNCHANGED <<dvars, gvars, svars>>
    /\ back # <<>>
    /\ back.slicer # <<>>
    /\ back.slicer[1].islice # <<>>
    /\ LET s == back.slicer[1]
       IN IF pastLastSlice(s)
          THEN /\ result' = [op |-> "nextRestored", islice |-> 0, idxs |-> <<>>,
                             raised |-> FALSE, stop |-> TRUE]
               /\ UNCHANGED back
          ELSE /\ back' = [back EXCEPT !.slicer[1].islice = <<s.islice[1] + 1>>]
               /\ result' = [op |-> "nextRestored", islice |-> s.islice[1] + 1,
                             idxs |-> IF s.isSetup
                                      THEN sliceIdxs(s, s.islice[1] + 1)
                                      ELSE <<>>,
                             raised |-> ~s.isSetup, stop |-> FALSE]
    /\ UNCHANGED <<slicer, table, nsetup, mvals, file>>

\* setupSlicer of a slicer that is saved afterwards.
SetupBeforeWrite(t) == file = <<>> /\ SetupOnce(t)

\* A slicer is constructed, set up or not, and saved with metric values; the
\* file is read and the restored slicer is used.
NextIO ==
    \/ \E args \in OneDSlicerArgs : Construct(args)
    \/ \E t \in Tables : SetupBeforeWrite(t)
    \/ \E mv \in MetricValueSamples : WriteData(mv)
    \/ ReadData
    \/ \E mv \in MetricValueSamples : WriteMetricDataGeneric(mv)
    \/ ReadMetricDataGeneric
    \/ \E isl \in 1..MaxPoints : ResolveRestored(isl)
    \/ IterRestored
    \/ NextSliceRestored

SpecIO == InitOneDSpec /\ [][NextIO]_vars

\* readData has returned a slicer.
SlicerRestored == slicer # <<>> /\ back # <<>> /\ back.slicer # <<>>

\* The restored slicer has the class, the number of slices and the slice
\* points of the slicer that wrote the file, and the two are equal (==).
RestoredLikeOriginal ==
    /\ file.slicerName = "OneDSlicer"
    /\ back.slicer[1].nslice = slicer.nslice
    /\ back.slicer[1].slicePoints = slicer.slicePoints
    /\ eqSlicer(slicer, back.slicer[1]) = "True"
    /\ eqSlicer(back.slicer[1], slicer) = "True"

C19_ValuesAndMaskRestored ==
    (back # <<>> /\ result.op = "read") =>
        /\ DOMAIN back.metricValues.data = DOMAIN mvals.data
        /\ maskOf(back.metricValues) = maskOf(mvals)
        /\ \A k \in DOMAIN mvals.data :
              ~maskOf(mvals)[k] => back.metricValues.data[k] = mvals.data[k]

\* C20: the restored slicer has the slice points but cannot slice: resolving
\* a slice by index raises, and so does every next() of an iteration; the
\* iteration does not end before each of its slices was asked for.
C20_RestoredSlicerCannotSlice ==
    /\ (SlicerRestored /\ result.op = "resolveRestored") => result.raised
    /\ (SlicerRestored /\ result.op = "nextRestored") =>
          \/ result.raised
          \/ /\ back.slicer[1].nslice # <<>>
             /\ back.slicer[1].islice = back.slicer[1].nslice

(***************************************************************************)
(* The slice-metric container: BaseSliceMetric.__init__ and                *)
(* readMetricData, ComparisonSliceMetric.addMetricData and _checkPlottable.*)
(***************************************************************************)
MaxIds == 4       \* bound: largest number of ids a container hands out
MaxList == 4      \* bound: longest list of ids handed to _checkPlottable

\* d[k] = v for a dictionary d.
SetKey(d, k, v) == (k :> v) @@ d

\* BaseSliceMetric.__init__, lines 35-43.
NewSliceMetric ==
    [iid_next |-> 0, metricNames |-> <<>>, plotDicts |-> <<>>,
     displayDicts |-> <<>>, slicers |-> <<>>, metricValues |-> <<>>,
     simDataNames |-> <<>>, sqlconstraints |-> <<>>, metadatas |-> <<>>]

\* The dictionaries keyed by iid.
PerIdDicts(c) ==
    <<c.slicers, c.metricValues, c.metricNames, c.simDataNames,
      c.sqlconstraints, c.metadatas, c.plotDicts, c.displayDicts>>

\* BaseSlicer.__init__: no slices, no slice points, no slice lookup.
NewBaseSlicer ==
    [slicerName |-> "BaseSlicer", nslice |-> <<>>, slicePoints |-> <<>>,
     badval |-> badval, isSetup |-> FALSE, islice |-> <<>>]

\* The classes that lsst.sims.maf.slicers holds, as far as they are used here.
SlicerNames == {"BaseSlicer", "OneDSlicer"}

\* BaseSlicer().writeData(...): what writeMetric writes for metric values
\* that have no slicer (lines 186-193).
baseNpzOf(mv) ==
    [format |-> "npz",
     metricValues |-> mv.data,
     mask |-> IF mv.masked THEN <<mv.mask>> ELSE <<>>,
     fill |-> IF mv.masked THEN mv.fill ELSE <<>>,
     slicer_init |-> [badval |-> badval, plotFuncs |-> "all"],
     slicerName |-> "BaseSlicer",
     slicePoints |-> NewBaseSlicer.slicePoints,
     slicerNSlice |-> NewBaseSlicer.nslice]

\* A OneDSlicer with bins 0, 1, 2 that has been set up.
SavedSlicer ==
    setupSlicer(NewOneDSlicer([sliceColName |-> "night", bins |-> <<0, 1, 2>>,
                               nbins |-> <<>>, binMin |-> <<>>,
                               binMax |-> <<>>, binsize |-> <<>>]),
                <<0, 1>>).slicer

\* The header writeData saves, and the type of the values.
headerOf(name, dtype) ==
    [metricName |-> name, simDataName |-> "opsim", sqlconstraint |-> "night < 2",
     metadata |-> "", dtype |-> dtype]

\* The files readMetricData is given: values saved with a slicer, values of
\* object type, values saved without a slicer, a file that names a class
\* lsst.sims.maf.slicers does not hold, and a name without a file.
MetricFiles ==
    { [exists |-> TRUE, header |-> headerOf("Count", "float"),
       npz |-> npzOf(SavedSlicer, [masked |-> TRUE, data |-> <<1, badval>>,
                                   mask |-> <<FALSE, TRUE>>, fill |-> <<badval>>])],
      [exists |-> TRUE, header |-> headerOf("Completeness", "object"),
       npz |-> npzOf(SavedSlicer, [masked |-> TRUE, data |-> <<2, 1>>,
                                   mask |-> <<FALSE, FALSE>>, fill |-> <<badval>>])],
      [exists |-> TRUE, header |-> headerOf("Count", "float"),
       npz |-> baseNpzOf([masked |-> FALSE, data |-> <<1, 2>>, mask |-> <<>>,
                          fill |-> <<>>])],
      [exists |-> TRUE, header |-> headerOf("Count", "float"),
       npz |-> [npzOf(SavedSlicer, [masked |-> FALSE, data |-> <<1, 2>>,
                                    mask |-> <<>>, fill |-> <<>>])
                   EXCEPT !.slicerName = "OneDBinner"]],
      [exists |-> FALSE, header |-> <<>>, npz |-> <<>>] }

\* baseslicer.readData(f): np.load raises when there is no file, and
\* getattr(slicers, slicerName) raises when slicers holds no such class;
\* otherwise the values and the slicer of the class named, with the number
\* of slices and the slice points of the file.
readDataOf(f) ==
    IF ~f.exists \/ f.npz.slicerName \notin SlicerNames
    THEN [raised |-> TRUE, metricValues |-> <<>>, slicer |-> <<>>]
    ELSE [raised |-> FALSE,
          metricValues |-> loadedValues(f.npz),
          slicer |-> IF f.npz.slicerName = "OneDSlicer"
                     THEN restoredSlicer(f.npz)
                     ELSE [NewBaseSlicer EXCEPT !.nslice = f.npz.slicerNSlice,
                                                !.slicePoints = f.npz.slicePoints]]

\* The default bad value of a slicer class (OneDSlicer.__init__ and
\* BaseSlicer.__init__).
badvalOfClass(name) == IF name = "OneDSlicer" THEN 0 ELSE badval

\* readMetricData, lines 144-145: the values read, with the slicer's bad
\* value as fill value, and their type.
readValues(f) ==
    [values |-> [readDataOf(f).metricValues
                    EXCEPT !.fill = <<badvalOfClass(f.npz.slicerName)>>],
     dtype |-> f.header.dtype]

\* A variant of registerRead that does not advance iid_next.
registerReadSameId(c, f) ==
    LET rd == readDataOf(f)
        iid == c.iid_next
    IN [c EXCEPT !.slicers = SetKey(@, iid, rd.slicer),
                 !.metricValues = SetKey(@, iid, readValues(f)),
                 !.metricNames = SetKey(@, iid, f.header.metricName),
                 !.simDataNames = SetKey(@, iid, f.header.simDataName),
                 !.sqlconstraints = SetKey(@, iid, f.header.sqlconstraint),
                 !.metadatas = SetKey(@, iid, f.header.metadata),
                 !.plotDicts = SetKey(@, iid, <<>>),
                 !.displayDicts = SetKey(@, iid, "Ungrouped")]

\* readMetricData, lines 141-160, for a file that readData has read: the
\* next id is taken and every dictionary gets an entry under it.
registerRead(c, f) ==
    LET rd == readDataOf(f)
        iid == c.iid_next
    IN [c EXCEPT !.iid_next = @ + 1,
                 !.slicers = SetKey(@, iid, rd.slicer),
                 !.metricValues = SetKey(@, iid, readValues(f)),
                 !.metricNames = SetKey(@, iid, f.header.metricName),
                 !.simDataNames = SetKey(@, iid, f.header.simDataName),
                 !.sqlconstraints = SetKey(@, iid, f.header.sqlconstraint),
                 !.metadatas = SetKey(@, iid, f.header.metadata),
                 !.plotDicts = SetKey(@, iid, <<>>),
                 !.displayDicts = SetKey(@, iid, "Ungrouped")]

\* A container is constructed.
ConstructSliceMetric ==
    /\ UNCHANGED <<dvars, gvars, ovars, binner, bres, calc>>
    /\ sm = <<>>
    /\ sm' = NewSliceMetric
    /\ sres' = [op |-> "init", raised |-> FALSE]

\* readMetricData(f) for one file name: an exception of readData leaves the
\* method before anything is registered.
ReadMetricData(f) ==
    /\ UNCHANGED <<dvars, gvars, ovars, binner, bres, calc>>
    /\ sm # <<>>
    /\ sm.iid_next < MaxIds
    /\ IF readDataOf(f).raised
       THEN /\ sm' = sm
            /\ sres' = [op |-> "read", raised |-> TRUE, iids |-> <<>>,
                        file |-> f, before |-> sm]
       ELSE /\ sm' = registerRead(sm, f)
            /\ sres' = [op |-> "read", raised |-> FALSE, iids |-> <<sm.iid_next>>,
                        file |-> f, before |-> sm]

NextRead ==
    \/ ConstructSliceMetric
    \/ \E f \in MetricFiles : ReadMetricData(f)

InitSliceMetricSpec == IdleDriver /\ IdleGrid /\ IdleOneD /\ IdleSliceMetric

SpecRead == InitSliceMetricSpec /\ [][NextRead]_vars

\* C21: readMetricData of a file that was written without a slicer (by a
\* BaseSlicer: no slice points, no number of slices) raises.
C21_ReadWithoutSlicerRaises ==
    (sm # <<>> /\ sres.op = "read" /\ sres.file.exists
        /\ sres.file.npz.slicerName = "BaseSlicer") => sres.raised

\* The keys of every dictionary of the container are those of metricValues.
DictsAligned(c) ==
    \A k \in DOMAIN PerIdDicts(c) :
        DOMAIN PerIdDicts(c)[k] = DOMAIN c.metricValues

\* C27: after any readMetricData calls every dictionary of the container has
\* the same keys, iid_next is greater than every key, and a read that
\* returned registered its data under an id that no dictionary held before.
C27_IdsFreshAndDictsAligned ==
    sm # <<>> =>
        /\ DictsAligned(sm)
        /\ \A k \in DOMAIN sm.metricValues : k < sm.iid_next
        /\ (sres.op = "read" /\ ~sres.raised) =>
              /\ \A k \in DOMAIN PerIdDicts(sres.before) :
                    sres.iids[1] \notin DOMAIN PerIdDicts(sres.before)[k]
              /\ sres.iids[1] \in DOMAIN sm.metricValues

\* C27 witness: a third data set was read and registered.
C27_Witness ==
    /\ sm # <<>>
    /\ sres.op = "read"
    /\ ~sres.raised
    /\ sres.iids = <<2>>

(***************************************************************************)
(* ComparisonSliceMetric.addMetricData and _checkPlottable.                *)
(***************************************************************************)
\* addMetricData: the id is taken and iid_next advanced (lines 36-37). With
\* plotParams None, self.plotParams[iid] raises AttributeError, as the
\* container has no plotParams (line 39). Otherwise metricValues,
\* metricNames, slicers and simDataNames get their entry (lines 40-43) and
\* line 44 raises NameError: it reads sqlconstraints, and the argument is
\* sqlconstraint.
addMetricData(c, values, name, s, plotParamsGiven) ==
    LET iid == c.iid_next
        taken == [c EXCEPT !.iid_next = @ + 1]
    IN IF ~plotParamsGiven
       THEN [raised |-> TRUE, sm |-> taken]
       ELSE [raised |-> TRUE,
             sm |-> [taken EXCEPT !.metricValues = SetKey(@, iid, values),
                                  !.metricNames = SetKey(@, iid, name),
                                  !.slicers = SetKey(@, iid, s),
                                  !.simDataNames = SetKey(@, iid, "opsim")]]

\* sm.addMetricData(metricValues, metricName, slicer, ...)
AddMetricData(f, plotParamsGiven) ==
    /\ UNCHANGED <<dvars, gvars, ovars, binner, bres, calc>>
    /\ sm # <<>>
    /\ sm.iid_next < MaxIds
    /\ f.exists
    /\ f.npz.slicerName \in SlicerNames
    /\ LET out == addMetricData(sm, readValues(f), f.header.metricName,
                                readDataOf(f).slicer, plotParamsGiven)
       IN /\ sm' = out.sm
          /\ sres' = [op |-> "add", raised |-> out.raised, before |-> sm]

\* list.remove(x): the list without its first x.
RECURSIVE RemoveFirst(_, _)
RemoveFirst(l, x) ==
    IF l = <<>> THEN <<>>
    ELSE IF Head(l) = x THEN Tail(l)
    ELSE <<Head(l)>> \o RemoveFirst(Tail(l), x)

\* 'for iid in iids: if <iid fails>: iids.remove(iid)' from position idx on:
\* the loop takes the entry at its position and moves on by one, whether the
\* list has become shorter or not.
RECURSIVE removeFailing(_, _, _)
removeFailing(l, idx, failing) ==
    IF idx > Len(l) THEN l
    ELSE IF l[idx] \in failing
    THEN removeFailing(RemoveFirst(l, l[idx]), idx + 1, failing)
    ELSE removeFailing(l, idx + 1, failing)

\* The third loop of _checkPlottable: self.metricValues[iid] raises KeyError
\* for an id without metric values.
RECURSIVE removeObjects(_, _, _)
removeObjects(c, l, idx) ==
    IF idx > Len(l) THEN [raised |-> FALSE, iids |-> l]
    ELSE IF l[idx] \notin DOMAIN c.metricValues THEN [raised |-> TRUE, iids |-> l]
    ELSE IF c.metricValues[l[idx]].dtype = "object"
    THEN removeObjects(c, RemoveFirst(l, l[idx]), idx + 1)
    ELSE removeObjects(c, l, idx + 1)

\* The ids a container may be asked about.
Ids == 0..MaxIds

\* _checkPlottable(iids)
checkPlottable(c, iids) ==
    LET l1 == removeFailing(iids, 1, Ids \ DOMAIN c.metricValues)
        l2 == removeFailing(l1, 1, Ids \ DOMAIN c.slicers)
    IN removeObjects(c, l2, 1)

\* sm._checkPlottable(iids), once after a construction or a read.
CheckPlottable(iids) ==
    /\ UNCHANGED <<dvars, gvars, ovars, binner, bres, calc>>
    /\ sm # <<>>
    /\ sres.op # "checkPlottable"
    /\ sres' = [op |-> "checkPlottable", raised |-> checkPlottable(sm, iids).raised,
                given |-> iids, iids |-> checkPlottable(sm, iids).iids]
    /\ UNCHANGED sm

\* The lists of ids handed to _checkPlottable: no id twice.
IdLists ==
    {l \in UNION {[1..n -> Ids] : n \in 0..MaxList} :
        \A a, b \in DOMAIN l : a # b => l[a] # l[b]}

NextCompare ==
    \/ ConstructSliceMetric
    \/ \E f \in MetricFiles : ReadMetricData(f)
    \/ \E f \in MetricFiles, plotParamsGiven \in BOOLEAN :
          AddMetricData(f, plotParamsGiven)

SpecCompare == InitSliceMetricSpec /\ [][NextCompare]_vars

NextPlot ==
    \/ ConstructSliceMetric
    \/ \E f \in MetricFiles : ReadMetricData(f)
    \/ \E iids \in IdLists : CheckPlottable(iids)

SpecPlot == InitSliceMetricSpec /\ [][NextPlot]_vars

\* C28: addMetricData either returns, with the data registered under one new
\* id in every dictionary, or raises and leaves the dictionaries and
\* iid_next as they were.
C28_AddMetricDataAllOrNothing ==
    (sm # <<>> /\ sres.op = "add") =>
        IF sres.raised THEN sm = sres.before
        ELSE /\ sm.iid_next = sres.before.iid_next + 1
             /\ \A d \in {sm.metricValues, sm.metricNames, sm.slicers,
                          sm.simDataNames, sm.sqlconstraints, sm.metadatas,
                          sm.displayDicts} :
                   sres.before.iid_next \in DOMAIN d

\* An id is plottable: it has metric values and a slicer, and the values are
\* not of object type.
Plottable(c, k) ==
    /\ k \in DOMAIN c.metricValues
    /\ k \in DOMAIN c.slicers
    /\ c.metricValues[k].dtype # "object"

\* C30: _checkPlottable does not raise and returns, in their order, exactly
\* the given ids that are plottable.
C30_CheckPlottableKeepsPlottableIds ==
    (sm # <<>> /\ sres.op = "checkPlottable") =>
        /\ ~sres.raised
        /\ sres.iids = SelectSeq(sres.given, LAMBDA k : Plottable(sm, k))

(***************************************************************************)
(* Binners: OneDBinner, OpsimFieldBinner and BaseSpatialBinner, and        *)
(* slicers as readers of files.                                            *)
(***************************************************************************)
\* Angles are counted in quarter turns (pi/2): 2*pi is 4.
twoPi == 4

\* The right ascensions and declinations of pointings: below, inside and
\* above the ranges [0, 2*pi] and [-pi/2, pi/2], and above 2*pi.
Angles == {0 - 2, 0, 1, 2, 5}

\* The pointings of a table: (ra, dec) for every row.
Pointings == UNION {[1..n -> Angles \X Angles] : n \in 0..MaxRows}

\* The bin values a OneDBinner is set up with.
BinnerBins == {<<0, 1, 2>>, <<3, 1>>}

\* OneDBinner.__init__ (and BaseBinner.__init__).
NewOneDBinner ==
    [class |-> "OneDBinner", binnertype |-> "ONED", bins |-> <<>>,
     nbins |-> <<>>, badval |-> badval, ra |-> <<>>, dec |-> <<>>,
     opsimtree |-> <<>>, ipix |-> <<>>]

\* OpsimFieldBinner.__init__(ra, dec) (and BaseSpatialBinner.__init__).
NewOpsimFieldBinner(ra, dec) ==
    [class |-> "OpsimFieldBinner", binnertype |-> "SPATIAL", bins |-> <<>>,
     nbins |-> <<Len(ra)>>, badval |-> badval, ra |-> ra, dec |-> dec,
     opsimtree |-> <<>>, ipix |-> <<>>]

\* A slicer that is asked to read a file: a OneDSlicer or a BaseSlicer as
\* constructed; nbins stands for its number of slices.
NewReaderSlicer(name) ==
    [class |-> name, binnertype |-> "None", bins |-> <<>>, nbins |-> <<>>,
     badval |-> badvalOfClass(name), ra |-> <<>>, dec |-> <<>>,
     opsimtree |-> <<>>, ipix |-> <<>>]

\* The binners and slicers that are constructed.
NewBinners ==
    {NewOneDBinner, NewOpsimFieldBinner(<<0, 1>>, <<0, 0>>),
     NewOpsimFieldBinner(<<2>>, <<1>>)}
        \cup {NewReaderSlicer(name) : name \in SlicerNames}

\* OneDBinner.setupBinner(simData, sliceDataColName, bins) with bins given.
setupBinner(b, bins) ==
    [b EXCEPT !.bins = Sort(bins), !.nbins = <<Len(bins)>>]

\* _buildTree, line 64: np.any(simDataRa > np.pi*2.0) or
\* np.any(simDataDec > np.pi*2.0).
outOfRadians(p) ==
    \E k \in DOMAIN p : p[k][1] > twoPi \/ p[k][2] > twoPi

\* BaseSpatialBinner._buildTree: raises for values that are not radians,
\* else the tree of the pointings, [] when there are none.
buildTree(b, p) ==
    IF outOfRadians(p) THEN [raised |-> TRUE, binner |-> b]
    ELSE [raised |-> FALSE, binner |-> [b EXCEPT !.opsimtree = <<p>>]]

\* writeMetricData of a binner: the binner's type, its bins or its ra and
\* dec, and the values as writeMetricDataGeneric writes them.
binnerFile(b, mv) ==
    [binnertype |-> b.binnertype, bins |-> b.bins, ra |-> b.ra, dec |-> b.dec,
     badval |-> badval, int_badval |-> badval, values |-> fitsOf(mv)]

\* The files the binners read: written by a OneDBinner with bins 0, 1, 2,
\* by one with bins 1, 3, and by an OpsimFieldBinner.
BinnerFiles ==
    {binnerFile(setupBinner(NewOneDBinner, bins),
                [masked |-> FALSE, data |-> <<1, 2>>, mask |-> <<>>, fill |-> <<>>]) :
        bins \in BinnerBins}
    \cup {binnerFile(NewOpsimFieldBinner(<<0, 1>>, <<0, 0>>),
                     [masked |-> FALSE, data |-> <<1, 2>>, mask |-> <<>>,
                      fill |-> <<>>])}

\* OneDBinner.readMetricData and OpsimFieldBinner.readMetricData: both raise
\* when the file's binnertype is not theirs. The OneDBinner then takes the
\* bins, their number and the bad values of the file and returns itself; the
\* OpsimFieldBinner returns a new binner made of the ra and dec of the file.
readMetricData(b, f) ==
    IF f.binnertype # b.binnertype
    THEN [raised |-> TRUE, binner |-> b, returned |-> <<>>]
    ELSE IF b.class = "OneDBinner"
    THEN LET r == [b EXCEPT !.bins = f.bins, !.nbins = <<Len(f.bins)>>,
                            !.badval = f.badval]
         IN [raised |-> FALSE, binner |-> r, returned |-> <<r>>]
    ELSE [raised |-> FALSE, binner |-> b,
          returned |-> <<[NewOpsimFieldBinner(f.ra, f.dec) EXCEPT !.badval = f.badval]>>]

\* A binner or a slicer is constructed.
ConstructBinner(b) ==
    /\ UNCHANGED <<dvars, gvars, ovars, sm, sres, calc>>
    /\ binner = <<>>
    /\ binner' = b
    /\ bres' = [op |-> "init", raised |-> FALSE]

\* binner.setupBinner(simData, sliceDataColName, bins) of a OneDBinner.
SetupOneDBinner(bins) ==
    /\ UNCHANGED <<dvars, gvars, ovars, sm, sres, calc>>
    /\ binner # <<>>
    /\ binner.class = "OneDBinner"
    /\ binner' = setupBinner(binner, bins)
    /\ bres' = [op |-> "setup", raised |-> FALSE, before |-> binner]

\* binner.setupBinner(simData) of a spatial binner that was just constructed:
\* _buildTree on the pointings of the table.
SetupSpatialBinner(p) ==
    /\ UNCHANGED <<dvars, gvars, ovars, sm, sres, calc>>
    /\ binner # <<>>
    /\ binner.class = "OpsimFieldBinner"
    /\ bres.op = "init"
    /\ binner' = buildTree(binner, p).binner
    /\ bres' = [op |-> "buildTree", raised |-> buildTree(binner, p).raised,
                before |-> binner, pointings |-> p]

\* binner.readMetricData(infilename)
BinnerReadMetricData(f) ==
    /\ UNCHANGED <<dvars, gvars, ovars, sm, sres, calc>>
    /\ binner # <<>>
    /\ binner.class \in {"OneDBinner", "OpsimFieldBinner"}
    /\ binner' = readMetricData(binner, f).binner
    /\ bres' = [op |-> "read", raised |-> readMetricData(binner, f).raised,
                before |-> binner, tagDiffers |-> f.binnertype # binner.binnertype,
                returned |-> readMetricData(binner, f).returned]

\* slicer.readData(infilename) of any slicer: the slicer of the class the
\* file names is built; the reading slicer is not looked at.
SlicerReadData(f) ==
    /\ UNCHANGED <<dvars, gvars, ovars, sm, sres, calc>>
    /\ binner # <<>>
    /\ binner.class \in SlicerNames
    /\ f.exists
    /\ binner' = binner
    /\ bres' = [op |-> "read", raised |-> readDataOf(f).raised,
                before |-> binner, tagDiffers |-> f.npz.slicerName # binner.class,
                returned |-> IF readDataOf(f).raised THEN <<>>
                             ELSE <<readDataOf(f).slicer>>]

NextBinner ==
    \/ \E b \in NewBinners : ConstructBinner(b)
    \/ \E bins \in BinnerBins : SetupOneDBinner(bins)
    \/ \E p \in Pointings : SetupSpatialBinner(p)
    \/ \E f \in BinnerFiles : BinnerReadMetricData(f)
    \/ \E f \in MetricFiles : SlicerReadData(f)

SpecBinner == InitSliceMetricSpec /\ [][NextBinner]_vars

\* C22: a read of a file whose kind (binnertype, or slicer class) is not that
\* of the binner or slicer that reads raises and leaves the reader as it was.
C22_KindMismatchRaises ==
    (binner # <<>> /\ bres.op = "read" /\ bres.tagDiffers) =>
        /\ bres.raised
        /\ binner = bres.before

\* C23: _buildTree raises whenever a right ascension lies outside [0, 2*pi]
\* or a declination outside [-pi/2, pi/2].
C23_OutOfRangeCoordinatesRaise ==
    (binner # <<>> /\ bres.op = "buildTree"
        /\ \E k \in DOMAIN bres.pointings :
              \/ bres.pointings[k][1] < 0
              \/ bres.pointings[k][1] > twoPi
              \/ 4 * bres.pointings[k][2] < 0 - twoPi
              \/ 4 * bres.pointings[k][2] > twoPi)
        => bres.raised

(***************************************************************************)
(* CompletenessMetric: run and the reduce functions.                       *)
(***************************************************************************)
\* self.filters before the filters that are not requested are removed.
FilterNames == <<"u", "g", "r", "i", "z", "y">>

\* The numbers of visits u, g, r, i, z, y a metric is constructed with: all
\* filters, all but one, a few and one filter requested, with equal and with
\* different numbers, and none requested.
RequestedVisits ==
    {<<1, 1, 1, 1, 1, 1>>, <<2, 2, 2, 2, 2, 2>>, <<1, 2, 1, 2, 1, 2>>,
     <<0, 1, 1, 1, 1, 1>>, <<0, 2, 1, 2, 1, 1>>, <<2, 1, 2, 1, 2, 0>>,
     <<1, 0, 2, 0, 0, 1>>, <<0, 0, 2, 1, 0, 0>>, <<2, 0, 0, 0, 0, 1>>,
     <<0, 0, 0, 0, 0, 2>>, <<1, 0, 0, 0, 0, 0>>, <<0, 0, 0, 0, 0, 0>>}

\* The filter column of a data slice: one filter name for every row.
DataSlices == UNION {[1..n -> Range(FilterNames)] : n \in 0..MaxRows}

RECURSIVE gcd(_, _)
gcd(a, b) == IF b = 0 THEN a ELSE gcd(b, a % b)

\* The value of n / np.float(d), d > 0, as a fraction in lowest terms.
Frac(n, d) == IF n = 0 THEN <<0, 1>> ELSE <<n \div gcd(n, d), d \div gcd(n, d)>>

fracLeq(a, b) == a[1] * b[2] <= b[1] * a[2]

\* np.min of an array of values.
fracMin(a) == CHOOSE x \in Range(a) : \A y \in Range(a) : fracLeq(x, y)

\* np.where(self.nvisitsRequested > 0): the positions with a positive
\* number, in increasing order, at and after position k.
RECURSIVE goodFrom(_, _)
goodFrom(requested, k) ==
    IF k > Len(requested) THEN <<>>
    ELSE IF requested[k] > 0 THEN <<k>> \o goodFrom(requested, k + 1)
    ELSE goodFrom(requested, k + 1)

\* CompletenessMetric.__init__: the filters with a positive number of
\* requested visits are kept; ValueError when there is none.
NewCompletenessMetric(requested) ==
    LET good == goodFrom(requested, 1)
    IN [raised |-> good = <<>>,
        filters |-> [k \in DOMAIN good |-> FilterNames[good[k]]],
        nvisitsRequested |-> [k \in DOMAIN good |-> requested[good[k]]]]

\* np.size(np.where(dataSlice[self.filterCol] == f)[0])
filterVisits(dataSlice, f) ==
    Cardinality({row \in DOMAIN dataSlice : dataSlice[row] = f})

\* A variant of run that leaves the joint completeness out.
runWithoutJoint(m, dataSlice) ==
    [k \in DOMAIN m.filters |->
        Frac(filterVisits(dataSlice, m.filters[k]), m.nvisitsRequested[k])]

\* CompletenessMetric.run: the completeness of every kept filter, then the
\* minimum of them.
run(m, dataSlice) ==
    LET allCompleteness ==
            [k \in DOMAIN m.filters |->
                Frac(filterVisits(dataSlice, m.filters[k]), m.nvisitsRequested[k])]
    IN Append(allCompleteness, fracMin(allCompleteness))

\* reduceu .. reducey: completeness[np.where(self.filters == f)[0]] when f
\* is one of the kept filters, else 1.
reduceFilter(m, f, completeness) ==
    IF f \in Range(m.filters)
    THEN completeness[CHOOSE k \in DOMAIN m.filters : m.filters[k] = f]
    ELSE <<1, 1>>

\* reduceJoint: completeness[-1].
reduceJoint(completeness) == completeness[Len(completeness)]

\* metrics.CompletenessMetric(u=.., g=.., r=.., i=.., z=.., y=..)
ConstructCompleteness(requested) ==
    /\ UNCHANGED <<dvars, gvars, ovars, sm, sres, binner, bres>>
    /\ calc = <<>>
    /\ calc' = [op |-> "init", requested |-> requested,
                metric |-> NewCompletenessMetric(requested)]

\* completeness = metric.run(data, slicePoint)
RunCompleteness(dataSlice) ==
    /\ UNCHANGED <<dvars, gvars, ovars, sm, sres, binner, bres>>
    /\ calc # <<>>
    /\ calc.op = "init"
    /\ ~calc.metric.raised
    /\ calc' = [op |-> "run", requested |-> calc.requested, metric |-> calc.metric,
                dataSlice |-> dataSlice,
                completeness |-> run(calc.metric, dataSlice)]

\* metric.reduceu(completeness) .. metric.reduceJoint(completeness)
ReduceCompleteness ==
    /\ UNCHANGED <<dvars, gvars, ovars, sm, sres, binner, bres>>
    /\ calc # <<>>
    /\ calc.op = "run"
    /\ calc' = [op |-> "reduce", requested |-> calc.requested,
                metric |-> calc.metric, dataSlice |-> calc.dataSlice,
                completeness |-> calc.completeness,
                reduced |-> [f \in Range(FilterNames) |->
                                reduceFilter(calc.metric, f, calc.completeness)],
                joint |-> reduceJoint(calc.completeness)]

NextCompleteness ==
    \/ \E requested \in RequestedVisits : ConstructCompleteness(requested)
    \/ \E dataSlice \in DataSlices : RunCompleteness(dataSlice)
    \/ ReduceCompleteness

SpecCompleteness == InitSliceMetricSpec /\ [][NextCompleteness]_vars

\* The filters that were requested, and the ratio of the rows in filter
\* number k to the visits requested for it.
RequestedFilters == {k \in DOMAIN FilterNames : calc.requested[k] > 0}
RatioOf(k) ==
    Frac(filterVisits(calc.dataSlice, FilterNames[k]), calc.requested[k])

ReducePrefix == <<"r", "e", "d", "u", "c", "e">>

\* The names of the reduce functions of CompletenessMetric after 'reduce',
\* letter by letter.
ReduceSuffixes ==
    <<<<"u">>, <<"g">>, <<"r">>, <<"i">>, <<"z">>, <<"y">>,
      <<"J", "o", "i", "n", "t">>>>

\* reduceFunc.__name__ of reduce function number k.
funcName(k) == ReducePrefix \o ReduceSuffixes[k]

\* str.lstrip(chars): the leading characters that are in chars are removed.
RECURSIVE lstrip(_, _)
lstrip(name, chars) ==
    IF name = <<>> THEN <<>>
    ELSE IF Head(name) \in chars THEN lstrip(Tail(name), chars)
    ELSE name

\* rName = reduceFunc.__name__.lstrip('reduce')
rName(k) == lstrip(funcName(k), Range(ReducePrefix))

\* m.reduceFuncs.values(): the order of a dictionary is not specified; the
\* orders are the rotations of the order of definition and their reverses.
ReduceOrders ==
    LET n == Len(ReduceSuffixes)
    IN {[k \in 1..n |-> ((k + r - 1) % n) + 1] : r \in 0..(n - 1)}
         \cup {[k \in 1..n |-> ((n - k + r) % n) + 1] : r \in 0..(n - 1)}

\* reduceFunc(metricValuesPt) for reduce function number k.
applyReduce(m, k, metricValuesPt) ==
    IF k = Len(ReduceSuffixes) THEN reduceJoint(metricValuesPt)
    ELSE reduceFilter(m, FilterNames[k], metricValuesPt)

\* The value of a gridpoint: the number badval, or the array a metric returned.
Number(x) == [shape |-> "number", value |-> x]
Array(a) == [shape |-> "array", value |-> a]

\* if metricValuesPt == self.grid.badval: for a number the comparison, for an
\* array of one element the comparison with the element, and for a longer
\* array ValueError (the truth value of the array is ambiguous).
isBadval(metricValuesPt) ==
    IF metricValuesPt.shape = "number"
    THEN IF metricValuesPt.value = badval THEN "True" ELSE "False"
    ELSE IF Len(metricValuesPt.value) = 1
    THEN IF metricValuesPt.value[1] = badval THEN "True" ELSE "False"
    ELSE "raise"

\* The loop of reduceMetric from gridpoint ip on.
RECURSIVE reducePoints(_, _, _, _, _)
reducePoints(m, k, values, reduced, ip) ==
    IF ip > Len(values) THEN [raised |-> FALSE, reduced |-> reduced]
    ELSE IF isBadval(values[ip]) = "raise" THEN [raised |-> TRUE, reduced |-> reduced]
    ELSE reducePoints(m, k, values,
                      [reduced EXCEPT ![ip] =
                          IF isBadval(values[ip]) = "True" THEN Number(badval)
                          ELSE Number(applyReduce(m, k, values[ip].value))],
                      ip + 1)

\* BaseGridMetric.reduceMetric: the entry of rName is made of zeros and then
\* filled for every gridpoint.
reduceMetric(m, k, values, reduceValues) ==
    LET r == reducePoints(m, k, values, [ip \in DOMAIN values |-> Number(<<0, 1>>)], 1)
    IN [raised |-> r.raised, reduceValues |-> SetKey(reduceValues, rName(k), r.reduced)]

\* BaseGridMetric.reduceAll for one metric: reduceMetric for every reduce
\* function from position p of the order on, up to the first that raises.
RECURSIVE reduceAll(_, _, _, _, _)
reduceAll(m, order, values, reduceValues, p) ==
    IF p > Len(order) THEN [raised |-> FALSE, reduceValues |-> reduceValues]
    ELSE LET r == reduceMetric(m, order[p], values, reduceValues)
         IN IF r.raised THEN r
            ELSE reduceAll(m, order, values, r.reduceValues, p + 1)

\* The data slices of the gridpoints of a grid: no rows, or a few visits.
PointSlices == {<<>>, <<"u">>, <<"g", "u">>}

\* BaseGridMetric.runGrid with the metric: badval for a gridpoint without
\* rows, else the result of run on the rows of the gridpoint.
RunGridCompleteness(slices) ==
    /\ UNCHANGED <<dvars, gvars, ovars, sm, sres, binner, bres>>
    /\ calc # <<>>
    /\ calc.op = "init"
    /\ ~calc.metric.raised
    /\ calc' = [op |-> "runGrid", requested |-> calc.requested, metric |-> calc.metric,
                metricValues |-> [ip \in DOMAIN slices |->
                                     IF Len(slices[ip]) = 0 THEN Number(badval)
                                     ELSE Array(run(calc.metric, slices[ip]))]]

\* gridmetric.reduceAll()
ReduceAllValues(order) ==
    /\ UNCHANGED <<dvars, gvars, ovars, sm, sres, binner, bres>>
    /\ calc # <<>>
    /\ calc.op = "runGrid"
    /\ LET r == reduceAll(calc.metric, order, calc.metricValues, <<>>, 1)
       IN calc' = [op |-> "reduceAll", requested |-> calc.requested,
                   metric |-> calc.metric, metricValues |-> calc.metricValues,
                   raised |-> r.raised, reduceValues |-> r.reduceValues]

NextReduce ==
    \/ \E requested \in RequestedVisits : ConstructCompleteness(requested)
    \/ \E slices \in UNION {[1..n -> PointSlices] : n \in 0..MaxPoints} :
          RunGridCompleteness(slices)
    \/ \E order \in ReduceOrders : ReduceAllValues(order)

SpecReduce == InitSliceMetricSpec /\ [][NextReduce]_vars

\* C24: reduceAll returns with one array of reduced values for every reduce
\* function, each under a name of its own; each array has one entry for every
\* gridpoint: the reduce function applied to the value of the gridpoint, or
\* badval where the value is badval.
C24_OneArrayPerReduceFunction ==
    (calc # <<>> /\ calc.op = "reduceAll") =>
        /\ ~calc.raised
        /\ Cardinality(DOMAIN calc.reduceValues) = Len(ReduceSuffixes)
        /\ \A k \in DOMAIN ReduceSuffixes :
              /\ rName(k) \in DOMAIN calc.reduceValues
              /\ Len(calc.reduceValues[rName(k)]) = Len(calc.metricValues)
              /\ \A ip \in DOMAIN calc.metricValues :
                    calc.reduceValues[rName(k)][ip] =
                        IF calc.metricValues[ip] = Number(badval) THEN Number(badval)
                        ELSE Number(applyReduce(calc.metric, k,
                                                calc.metricValues[ip].value))

(***************************************************************************)
(* BaseGridMetric.writeGrid on the grid (a binner) of the gridmetric, and  *)
(* BaseSpatialBinner.sliceSimData.                                         *)
(***************************************************************************)
\* BaseSpatialBinner.sliceSimData(binpoint): AttributeError when the binner
\* has no attribute opsimtree, [] when the tree is [], else the pointings of
\* the tree that match the ra and dec of the binpoint.
sliceSimDataTree(b, binpoint) ==
    IF b.opsimtree = <<>> THEN [raised |-> TRUE, indices |-> {}]
    ELSE [raised |-> FALSE,
          indices |-> {k \in DOMAIN b.opsimtree[1] :
                          b.opsimtree[1][k] = <<b.ra[binpoint], b.dec[binpoint]>>}]

\* BaseGridMetric.writeGrid: modgrid is the grid itself; delattr raises
\* AttributeError when the grid has no attribute opsimtree, else the grid
\* loses the attribute and is pickled.
writeGrid(b) ==
    IF b.opsimtree = <<>> THEN [raised |-> TRUE, grid |-> b, pickled |-> <<>>]
    ELSE [raised |-> FALSE, grid |-> [b EXCEPT !.opsimtree = <<>>],
          pickled |-> <<[b EXCEPT !.opsimtree = <<>>]>>]

\* gridmetric.writeAll(): writeMetric for every metric, which hands the
\* values to the grid's writeMetricData, then writeGrid.
WriteGrid ==
    /\ UNCHANGED <<dvars, gvars, ovars, sm, sres, calc>>
    /\ binner # <<>>
    /\ binner.class \in {"OneDBinner", "OpsimFieldBinner"}
    /\ bres.op # "writeGrid"
    /\ binner' = writeGrid(binner).grid
    /\ bres' = [op |-> "writeGrid", raised |-> writeGrid(binner).raised,
                before |-> binner, pickled |-> writeGrid(binner).pickled]

\* grid.sliceSimData(binpoint) of a spatial binner.
SliceSimData(binpoint) ==
    /\ UNCHANGED <<dvars, gvars, ovars, sm, sres, calc>>
    /\ binner # <<>>
    /\ binner.class = "OpsimFieldBinner"
    /\ binpoint \in DOMAIN binner.ra
    /\ bres.op \in {"buildTree", "writeGrid"}
    /\ binner' = binner
    /\ bres' = [op |-> "sliceSimData", raised |-> sliceSimDataTree(binner, binpoint).raised,
                before |-> binner, binpoint |-> binpoint,
                indices |-> sliceSimDataTree(binner, binpoint).indices,
                written |-> bres.op = "writeGrid"]

NextWrite ==
    \/ \E b \in NewBinners : ConstructBinner(b)
    \/ \E bins \in BinnerBins : SetupOneDBinner(bins)
    \/ \E p \in Pointings : SetupSpatialBinner(p)
    \/ WriteGrid
    \/ \E binpoint \in 1..MaxPoints : SliceSimData(binpoint)

SpecWrite == InitSliceMetricSpec /\ [][NextWrite]_vars

\* C29: writeAll / writeGrid returns without an error, also for a grid that
\* has no spatial index, and leaves the grid in memory as it was: the grid
\* keeps its spatial index and resolves rows after the write.
C29_WriteLeavesGridUnchanged ==
    /\ (binner # <<>> /\ bres.op = "writeGrid") =>
          /\ ~bres.raised
          /\ binner = bres.before
    /\ (binner # <<>> /\ bres.op = "sliceSimData" /\ bres.written) => ~bres.raised

(***************************************************************************)
(* Iteration over one binner by several consumers: __iter__ and next of    *)
(* OneDBinner and OpsimFieldBinner (BaseSlicer keeps islice the same way). *)
(***************************************************************************)
\* The loops that iterate over the binner.
Consumers == {1, 2}

\* The points every loop has been given and where every loop stands, when
\* no loop has started.
NoLoops ==
    [op |-> "iter", raised |-> FALSE,
     visits |-> [c \in Consumers |-> <<>>],
     phase |-> [c \in Consumers |-> "idle"]]

\* The record of the loops so far.
loops == IF bres.op = "iter" THEN bres ELSE NoLoops

\* __iter__: self.ipix = 0; return self.
iterate(b) == [b EXCEPT !.ipix = <<0>>]

\* next: StopIteration when ipix >= nbins (npix), else the point at ipix is
\* returned and ipix grows by one.
nextPoint(b) ==
    IF b.ipix[1] >= b.nbins[1] THEN [stop |-> TRUE, binner |-> b, point |-> <<>>]
    ELSE [stop |-> FALSE, binner |-> [b EXCEPT !.ipix = <<b.ipix[1] + 1>>],
          point |-> <<b.ipix[1]>>]

\* A loop 'for binpoint in binner' starts: iter(binner).
StartLoop(c) ==
    /\ UNCHANGED <<dvars, gvars, ovars, sm, sres, calc>>
    /\ binner # <<>>
    /\ binner.class \in {"OneDBinner", "OpsimFieldBinner"}
    /\ binner.nbins # <<>>
    /\ loops.phase[c] = "idle"
    /\ binner' = iterate(binner)
    /\ bres' = [loops EXCEPT !.phase[c] = "iterating"]

\* A loop takes its next point: binner.next(); StopIteration ends the loop.
LoopNext(c) ==
    /\ UNCHANGED <<dvars, gvars, ovars, sm, sres, calc>>
    /\ binner # <<>>
    /\ bres.op = "iter"
    /\ bres.phase[c] = "iterating"
    /\ binner' = nextPoint(binner).binner
    /\ bres' = IF nextPoint(binner).stop
               THEN [bres EXCEPT !.phase[c] = "done"]
               ELSE [bres EXCEPT !.visits[c] = @ \o nextPoint(binner).point]

\* The binner is set up before it is shared by the loops.
SetupBeforeLoops(bins) == binner # <<>> /\ bres.op # "iter" /\ SetupOneDBinner(bins)

NextShare ==
    \/ \E b \in NewBinners : ConstructBinner(b)
    \/ \E bins \in BinnerBins : SetupBeforeLoops(bins)
    \/ \E c \in Consumers : StartLoop(c)
    \/ \E c \in Consumers : LoopNext(c)

SpecShare == InitSliceMetricSpec /\ [][NextShare]_vars

\* C25: every loop over a shared binner that has finished has been given all
\* the points 0 .. N-1, once each and in this order, whether or not another
\* loop over the same binner ran in between.
C25_InterleavedLoopsVisitAllPoints ==
    (binner # <<>> /\ bres.op = "iter") =>
        \A c \in Consumers :
            bres.phase[c] = "done" =>
                bres.visits[c] = [k \in 1..binner.nbins[1] |-> k - 1]
====
